---------------------------- MODULE Spec2Model ----------------------------
(***************************************************************************)
(* A model of the tweet curator's query engine (src/server.js): the        *)
(* stemmer, the search-query parser, the GET /api/tweets listing handler   *)
(* and the store it reads (src/database/schema.sql).                       *)
(*                                                                         *)
(* JavaScript and SQL strings are TLA+ strings; characters are taken with  *)
(* SubSeq(s, i, i) and strings are built with \o.                          *)
(***************************************************************************)
EXTENDS Integers, Sequences, FiniteSets, Bags, TLC

(***************************************************************************)
(* Strings                                                                 *)
(***************************************************************************)
At(s, i) == SubSeq(s, i, i)

UpperAlpha == "ABCDEFGHIJKLMNOPQRSTUVWXYZ"
LowerAlpha == "abcdefghijklmnopqrstuvwxyz"

\* One character folded to lower case (the ASCII range of String.prototype.toLowerCase
\* and of SQLite's lower()).
LowerMap == [c \in {At(UpperAlpha, i) : i \in 1..Len(UpperAlpha)} |->
                At(LowerAlpha, CHOOSE i \in 1..Len(UpperAlpha) : At(UpperAlpha, i) = c)]
LowerChar(c) == IF c \in DOMAIN LowerMap THEN LowerMap[c] ELSE c

RECURSIVE MapLower(_)
MapLower(s) ==
    IF Len(s) = 0 THEN "" ELSE LowerChar(At(s, 1)) \o MapLower(SubSeq(s, 2, Len(s)))

\* String.prototype.toLowerCase
toLowerCase(s) == MapLower(s)

\* SQLite's lower(X)
SqlLower(s) == MapLower(s)

\* String.prototype.endsWith
endsWith(w, suffix) ==
    /\ Len(suffix) <= Len(w)
    /\ SubSeq(w, Len(w) - Len(suffix) + 1, Len(w)) = suffix

\* w.slice(0, -n)
sliceEnd(w, n) == SubSeq(w, 1, Len(w) - n)

\* String.prototype.indexOf, 1-based; 0 when the pattern does not occur
IndexOf(s, pat) ==
    LET hits == {i \in 1..(Len(s) - Len(pat) + 1) : SubSeq(s, i, i + Len(pat) - 1) = pat}
    IN  IF hits = {} THEN 0 ELSE CHOOSE i \in hits : \A j \in hits : i <= j

\* s contains pat as a contiguous substring, every character literal
Contains(s, pat) == Len(pat) = 0 \/ IndexOf(s, pat) # 0

\* String.prototype.replace with a string pattern: the first occurrence only
replaceFirst(s, pat, rep) ==
    LET i == IndexOf(s, pat)
    IN  IF i = 0 THEN s
        ELSE SubSeq(s, 1, i - 1) \o rep \o SubSeq(s, i + Len(pat), Len(s))

\* the characters the regular expression class \s matches
IsSpace(c) == c \in {" ", "\t", "\n", "\r", "\f"}

\* Array.prototype.includes
includes(arr, x) == \E i \in 1..Len(arr) : arr[i] = x

\* Array.prototype.join
RECURSIVE join(_, _)
join(arr, sep) ==
    IF Len(arr) = 0 THEN ""
    ELSE IF Len(arr) = 1 THEN arr[1]
    ELSE arr[1] \o sep \o join(Tail(arr), sep)

(***************************************************************************)
(* JavaScript values returned by stem: a string, or what a lookup in the   *)
(* irregulars object literal finds on Object.prototype.                    *)
(***************************************************************************)
JsString(s) == [type |-> "string", value |-> s, length |-> Len(s)]

\* irregulars is a plain object literal: a key it does not own is looked up on
\* Object.prototype.  The inherited keys that are their own lower case:
ObjectPrototype ==
    ("constructor" :> [type |-> "function", value |-> "Object", length |-> 1]) @@
    ("__proto__" :> [type |-> "object", value |-> "Object.prototype", length |-> -1])

(***************************************************************************)
(* stem                                                                    *)
(***************************************************************************)
\* the entries of the irregulars object literal: <<key, value>>
irregularEntries == {
    <<"ran", "run">>, <<"running", "run">>, <<"runs", "run">>,
    <<"children", "child">>, <<"childs", "child">>,
    <<"men", "man">>, <<"women", "woman">>,
    <<"feet", "foot">>, <<"teeth", "tooth">>,
    <<"mice", "mouse">>, <<"geese", "goose">>,
    <<"was", "be">>, <<"were", "be">>, <<"been", "be">>, <<"being", "be">>, <<"is", "be">>, <<"are", "be">>, <<"am", "be">>,
    <<"had", "have">>, <<"has", "have">>, <<"having", "have">>,
    <<"did", "do">>, <<"does", "do">>, <<"doing", "do">>,
    <<"went", "go">>, <<"goes", "go">>, <<"going", "go">>, <<"gone", "go">>,
    <<"said", "say">>, <<"says", "say">>, <<"saying", "say">>,
    <<"made", "make">>, <<"makes", "make">>, <<"making", "make">>,
    <<"took", "take">>, <<"takes", "take">>, <<"taking", "take">>, <<"taken", "take">>,
    <<"came", "come">>, <<"comes", "come">>, <<"coming", "come">>,
    <<"saw", "see">>, <<"sees", "see">>, <<"seeing", "see">>, <<"seen", "see">>,
    <<"knew", "know">>, <<"knows", "know">>, <<"knowing", "know">>, <<"known", "know">>,
    <<"thought", "think">>, <<"thinks", "think">>, <<"thinking", "think">>,
    <<"got", "get">>, <<"gets", "get">>, <<"getting", "get">>, <<"gotten", "get">>,
    <<"gave", "give">>, <<"gives", "give">>, <<"giving", "give">>, <<"given", "give">>,
    <<"told", "tell">>, <<"tells", "tell">>, <<"telling", "tell">>,
    <<"felt", "feel">>, <<"feels", "feel">>, <<"feeling", "feel">>,
    <<"became", "become">>, <<"becomes", "become">>, <<"becoming", "become">>,
    <<"left", "leave">>, <<"leaves", "leave">>, <<"leaving", "leave">>,
    <<"brought", "bring">>, <<"brings", "bring">>, <<"bringing", "bring">>,
    <<"wrote", "write">>, <<"writes", "write">>, <<"writing", "write">>, <<"written", "write">>,
    <<"sat", "sit">>, <<"sits", "sit">>, <<"sitting", "sit">>,
    <<"stood", "stand">>, <<"stands", "stand">>, <<"standing", "stand">>,
    <<"lost", "lose">>, <<"loses", "lose">>, <<"losing", "lose">>,
    <<"paid", "pay">>, <<"pays", "pay">>, <<"paying", "pay">>,
    <<"met", "meet">>, <<"meets", "meet">>, <<"meeting", "meet">>,
    <<"set", "set">>, <<"sets", "set">>, <<"setting", "set">>,
    <<"learned", "learn">>, <<"learns", "learn">>, <<"learning", "learn">>, <<"learnt", "learn">>,
    <<"kept", "keep">>, <<"keeps", "keep">>, <<"keeping", "keep">>,
    <<"built", "build">>, <<"builds", "build">>, <<"building", "build">>,
    <<"sent", "send">>, <<"sends", "send">>, <<"sending", "send">>,
    <<"spent", "spend">>, <<"spends", "spend">>, <<"spending", "spend">>,
    <<"understood", "understand">>, <<"understands", "understand">>, <<"understanding", "understand">>,
    <<"began", "begin">>, <<"begins", "begin">>, <<"beginning", "begin">>, <<"begun", "begin">>,
    <<"held", "hold">>, <<"holds", "hold">>, <<"holding", "hold">>,
    <<"heard", "hear">>, <<"hears", "hear">>, <<"hearing", "hear">>,
    <<"found", "find">>, <<"finds", "find">>, <<"finding", "find">>,
    <<"read", "read">>, <<"reads", "read">>, <<"reading", "read">>,
    <<"meant", "mean">>, <<"means", "mean">>, <<"meaning", "mean">>,
    <<"led", "lead">>, <<"leads", "lead">>, <<"leading", "lead">>,
    <<"put", "put">>, <<"puts", "put">>, <<"putting", "put">>,
    <<"showed", "show">>, <<"shows", "show">>, <<"showing", "show">>, <<"shown", "show">>,
    <<"moved", "move">>, <<"moves", "move">>, <<"moving", "move">>,
    <<"lived", "live">>, <<"lives", "live">>, <<"living", "live">>,
    <<"believed", "believe">>, <<"believes", "believe">>, <<"believing", "believe">>,
    <<"loved", "love">>, <<"loves", "love">>, <<"loving", "love">> }

irregulars ==
    [w \in {e[1] : e \in irregularEntries} |->
        (CHOOSE e \in irregularEntries : e[1] = w)[2]]

\* irregulars[w]: own keys first, then the prototype chain; "undefined" is falsy
irregularsLookup(w) ==
    IF w \in DOMAIN irregulars THEN JsString(irregulars[w])
    ELSE IF w \in DOMAIN ObjectPrototype THEN ObjectPrototype[w]
    ELSE [type |-> "undefined", value |-> "", length |-> -1]

\* a variant of stemPlural that leaves plural endings in place
stemPluralNone(w) == w

\* first if/else-if chain: plural endings
stemPlural(w) ==
    IF endsWith(w, "ies") /\ Len(w) > 4 THEN sliceEnd(w, 3) \o "y"
    ELSE IF endsWith(w, "ied") /\ Len(w) > 4 THEN sliceEnd(w, 3) \o "y"
    ELSE IF endsWith(w, "es") /\ Len(w) > 4 THEN sliceEnd(w, 2)
    ELSE IF endsWith(w, "s") /\ ~endsWith(w, "ss") /\ Len(w) > 3 THEN sliceEnd(w, 1)
    ELSE w

\* a variant of undouble that keeps the doubled consonant
undoubleNever(w) == w

\* the doubled-consonant undo after -ing / -ed
undouble(w) ==
    IF Len(w) > 2 /\ At(w, Len(w)) = At(w, Len(w) - 1) THEN sliceEnd(w, 1) ELSE w

\* second if/else-if chain: verbal and derivational endings
stemSuffix(w) ==
    IF endsWith(w, "ing") /\ Len(w) > 5 THEN undouble(sliceEnd(w, 3))
    ELSE IF endsWith(w, "ed") /\ Len(w) > 4 THEN undouble(sliceEnd(w, 2))
    ELSE IF endsWith(w, "ness") /\ Len(w) > 6 THEN sliceEnd(w, 4)
    ELSE IF endsWith(w, "ment") /\ Len(w) > 6 THEN sliceEnd(w, 4)
    ELSE IF endsWith(w, "ly") /\ Len(w) > 4 THEN sliceEnd(w, 2)
    ELSE IF endsWith(w, "ful") /\ Len(w) > 5 THEN sliceEnd(w, 3)
    ELSE IF endsWith(w, "less") /\ Len(w) > 6 THEN sliceEnd(w, 4)
    ELSE IF endsWith(w, "tion") /\ Len(w) > 6 THEN sliceEnd(w, 4)
    ELSE IF endsWith(w, "er") /\ Len(w) > 4 THEN sliceEnd(w, 2)
    ELSE IF endsWith(w, "est") /\ Len(w) > 5 THEN sliceEnd(w, 3)
    ELSE IF endsWith(w, "able") /\ Len(w) > 6 THEN sliceEnd(w, 4)
    ELSE IF endsWith(w, "ible") /\ Len(w) > 6 THEN sliceEnd(w, 4)
    ELSE w

\* a variant of stem that consults the irregulars before the length floor
stemTableFirst(word) ==
    LET w == toLowerCase(word)
        irr == irregularsLookup(w)
    IN  IF irr.type # "undefined" /\ ~(irr.type = "string" /\ irr.value = "")
        THEN irr
        ELSE IF Len(word) < 3 THEN JsString(w)
        ELSE JsString(stemSuffix(stemPlural(w)))

stem(word) ==
    IF Len(word) = 0 \/ Len(word) < 3 THEN JsString(toLowerCase(word))
    ELSE LET w == toLowerCase(word)
             irr == irregularsLookup(w)
         IN  IF irr.type # "undefined" /\ ~(irr.type = "string" /\ irr.value = "")
             THEN irr
             ELSE JsString(stemSuffix(stemPlural(w)))

(***************************************************************************)
(* parseSearchQuery                                                        *)
(***************************************************************************)
\* index of the first occurrence of the character c at or after i; 0 when none
IndexFrom(s, c, i) ==
    LET hits == {k \in i..Len(s) : At(s, k) = c}
    IN  IF hits = {} THEN 0 ELSE CHOOSE k \in hits : \A m \in hits : k <= m

\* the successive matches of /"([^"]+)"/g on query, scanning from index i:
\* each match as the positions of its two quotes
RECURSIVE quotedRegexExec(_, _)
quotedRegexExec(query, i) ==
    LET open == IndexFrom(query, "\"", i)
        close == IF open = 0 THEN 0 ELSE IndexFrom(query, "\"", open + 1)
    IN  IF open = 0 \/ close = 0 THEN << >>
        ELSE IF close = open + 1 THEN quotedRegexExec(query, open + 1)
        ELSE <<[from |-> open, to |-> close]>> \o quotedRegexExec(query, close + 1)

\* the while loop: remaining = remaining.replace(match[0], ' ') for each match in turn
RECURSIVE dePhrase(_, _, _)
dePhrase(query, matches, remaining) ==
    IF Len(matches) = 0 THEN remaining
    ELSE dePhrase(query, Tail(matches),
                  replaceFirst(remaining,
                               SubSeq(query, matches[1].from, matches[1].to), " "))

\* remaining.split(/\s+/).filter(w => w.length > 0), scanning from index i with the
\* word collected so far in cur
RECURSIVE splitWords(_, _, _)
splitWords(s, i, cur) ==
    IF i > Len(s) THEN (IF Len(cur) > 0 THEN <<cur>> ELSE << >>)
    ELSE IF IsSpace(At(s, i))
         THEN (IF Len(cur) > 0 THEN <<cur>> ELSE << >>) \o splitWords(s, i + 1, "")
         ELSE splitWords(s, i + 1, cur \o At(s, i))

stopWords ==
    <<"a", "an", "the", "is", "are", "was", "were", "be", "been",
      "being", "have", "has", "had", "do", "does", "did", "will",
      "would", "could", "should", "may", "might", "must", "shall",
      "can", "to", "of", "in", "for", "on", "with", "at", "by",
      "from", "or", "and", "but", "if", "then", "so", "than",
      "that", "this", "these", "those", "it", "its">>

\* the words.forEach callback: does the word become a token?
\* a variant of keepWord without the stop-word test
keepWordLong(word) == ~(Len(word) < 2)

keepWord(word) ==
    /\ ~(Len(word) < 2)
    /\ ~includes(stopWords, toLowerCase(word))

\* the phrases array when the token loop starts: phrase tokens, then word tokens
searchTokens(query) ==
    LET matches == quotedRegexExec(query, 1)
        phraseTokens == [k \in 1..Len(matches) |->
                            [type |-> "phrase",
                             value |-> SubSeq(query, matches[k].from + 1, matches[k].to - 1)]]
        remaining == dePhrase(query, matches, query)
        words == splitWords(remaining, 1, "")
        wordTokens == [k \in 1..Len(SelectSeq(words, keepWord)) |->
                            [type |-> "word", value |-> SelectSeq(words, keepWord)[k]]]
    IN  phraseTokens \o wordTokens

LikeOne == "lower(t.full_text) LIKE ?"
LikeWordOrStem == "(lower(t.full_text) LIKE ? OR lower(t.full_text) LIKE ?)"

\* `${stemmed}` in a template literal: the string itself, or String(value)
stemText(stemmed) ==
    IF stemmed.type = "string" THEN stemmed.value
    ELSE IF stemmed.type = "function" THEN "function Object() { [native code] }"
    ELSE "[object Object]"

\* a variant of tokenClause that binds the stem before the word
tokenClauseStemFirst(token) ==
    IF token.type = "phrase"
    THEN [conditions |-> <<LikeOne>>,
          params |-> <<"%" \o toLowerCase(token.value) \o "%">>]
    ELSE IF stem(toLowerCase(token.value)) # JsString(toLowerCase(token.value))
            /\ stem(toLowerCase(token.value)).length >= 3
         THEN [conditions |-> <<LikeWordOrStem>>,
               params |-> <<"%" \o stemText(stem(toLowerCase(token.value))) \o "%",
                            "%" \o toLowerCase(token.value) \o "%">>]
         ELSE [conditions |-> <<LikeOne>>,
               params |-> <<"%" \o toLowerCase(token.value) \o "%">>]

\* what one token pushes on conditions and on params
tokenClause(token) ==
    IF token.type = "phrase"
    THEN [conditions |-> <<LikeOne>>,
          params |-> <<"%" \o toLowerCase(token.value) \o "%">>]
    ELSE LET word == toLowerCase(token.value)
             stemmed == stem(word)
         IN  IF stemmed # JsString(word) /\ stemmed.length >= 3
             THEN [conditions |-> <<LikeWordOrStem>>,
                   params |-> <<"%" \o word \o "%", "%" \o stemText(stemmed) \o "%">>]
             ELSE [conditions |-> <<LikeOne>>,
                   params |-> <<"%" \o word \o "%">>]

RECURSIVE buildClauses(_)
buildClauses(toks) ==
    IF Len(toks) = 0 THEN [conditions |-> << >>, params |-> << >>]
    ELSE LET c == tokenClause(toks[1])
             rest == buildClauses(Tail(toks))
         IN  [conditions |-> c.conditions \o rest.conditions,
              params |-> c.params \o rest.params]

parseSearchQuery(query) == buildClauses(searchTokens(query))

(***************************************************************************)
(* SQL text matching                                                       *)
(***************************************************************************)
\* SQLite's X LIKE P without ESCAPE: % matches any run of characters, _ matches
\* exactly one, every other character matches itself, ASCII letters by either case.
\* text from index i against pattern from index j.
RECURSIVE likeAt(_, _, _, _)
likeAt(text, i, pat, j) ==
    IF j > Len(pat) THEN i > Len(text)
    ELSE IF At(pat, j) = "%"
         THEN \E k \in i..(Len(text) + 1) : likeAt(text, k, pat, j + 1)
         ELSE /\ i <= Len(text)
              /\ \/ At(pat, j) = "_"
                 \/ LowerChar(At(text, i)) = LowerChar(At(pat, j))
              /\ likeAt(text, i + 1, pat, j + 1)

Like(text, pat) == likeAt(text, 1, pat, 1)

(***************************************************************************)
(* JavaScript numbers: parseInt, Math.ceil                                 *)
(***************************************************************************)
Digits == "0123456789"
IsDigit(c) == Len(c) = 1 /\ IndexOf(Digits, c) # 0
DigitVal(c) == IndexOf(Digits, c) - 1

JsInt(n) == [kind |-> "int", n |-> n]
NaN == [kind |-> "NaN", n |-> 0]
Infinity == [kind |-> "Infinity", n |-> 0]

\* the value of the longest run of decimal digits of s starting at index i
RECURSIVE digitsValue(_, _, _)
digitsValue(s, i, acc) ==
    IF i <= Len(s) /\ IsDigit(At(s, i))
    THEN digitsValue(s, i + 1, acc * 10 + DigitVal(At(s, i)))
    ELSE acc

RECURSIVE skipSpace(_, _)
skipSpace(s, i) == IF i <= Len(s) /\ IsSpace(At(s, i)) THEN skipSpace(s, i + 1) ELSE i

\* parseInt(string): leading white space, an optional sign, then decimal digits;
\* NaN when no digit follows
parseInt(s) ==
    LET i == skipSpace(s, 1)
        signed == i <= Len(s) /\ At(s, i) \in {"+", "-"}
        j == IF signed THEN i + 1 ELSE i
    IN  IF j <= Len(s) /\ IsDigit(At(s, j))
        THEN JsInt((IF signed /\ At(s, i) = "-" THEN -1 ELSE 1) * digitsValue(s, j, 0))
        ELSE NaN

\* Math.ceil(total / limit) for an integer total >= 0
ceilDiv(total, limit) ==
    IF limit.kind # "int" THEN NaN
    ELSE IF limit.n = 0 THEN (IF total = 0 THEN NaN ELSE Infinity)
    ELSE IF limit.n > 0 THEN JsInt((total + limit.n - 1) \div limit.n)
    ELSE JsInt(-(total \div (-limit.n)))

(***************************************************************************)
(* The store (src/database/schema.sql)                                     *)
(***************************************************************************)
VARIABLES
    tweets,       \* table tweets: id -> row
    tags,         \* table tags: a set of rows [id, name, category, color]
    tweet_tags,   \* table tweet_tags: a set of rows [tweet_id, tag_id, source]
    tagSeq,       \* the AUTOINCREMENT counter of tags.id
    swipe_sessions, \* table swipe_sessions: the rows
    today,        \* the date new Date() gives, as a day number
    req,          \* the request being answered
    res           \* its response

vars == <<tweets, tags, tweet_tags, tagSeq, swipe_sessions, today, req, res>>
store == <<tweets, tags, tweet_tags, tagSeq, swipe_sessions, today>>

NULL == "NULL"

TweetTypes == {"text_only", "media", "quote", "reply", "retweet", "thread"}
LengthCategories == {"short", "medium", "long"}
SwipeStatuses == {"dislike", "like", "superlike", "review_later"}
TagCategories == {"topic", "pattern", "use", "custom"}

\* the CHECK constraints of table tweets
TweetRowOk(row) ==
    /\ row.length_category \in LengthCategories \cup {NULL}
    /\ row.tweet_type \in TweetTypes \cup {NULL}
    /\ row.quality_rating \in {"high", "medium", "low", NULL}
    /\ row.swipe_status \in SwipeStatuses \cup {NULL}

\* SQL comparison X = Y: NULL on either side makes the row fail
SqlEq(a, b) == a # NULL /\ b # NULL /\ a = b
\* SQL comparison X != Y
SqlNe(a, b) == a # NULL /\ b # NULL /\ a # b

(***************************************************************************)
(* SQL of GET /api/tweets                                                  *)
(*                                                                         *)
(* A condition pushed on `conditions` is a parenthesised list of SQL       *)
(* fragments and the word that joins them; WHERE joins the conditions      *)
(* with AND.  Parameters are positional: a fragment consumes as many of    *)
(* the bound values as it has ? placeholders, in the order of the text.    *)
(***************************************************************************)
ThreadParentCond == "(t.tweet_type != 'thread' OR thread_parent.id IS NULL)"
TypeThreadCond == "EXISTS (SELECT 1 FROM tweets child WHERE child.in_reply_to_tweet_id = t.id)"
TypeEqCond == "t.tweet_type = ?"
LengthEqCond == "t.length_category = ?"
SwipeNullCond == "t.swipe_status IS NULL"
SwipeEqCond == "t.swipe_status = ?"
ReviewedCond == "t.is_reviewed = 1"
NotReviewedCond == "t.is_reviewed = 0"
NotRetweetCond == "t.tweet_type != 'retweet'"
NotReplyCond == "t.tweet_type != 'reply'"
ExcludeThreadsCond == "(t.tweet_type != 'thread' OR t.in_reply_to_tweet_id IS NULL)"

\* conditions.push(sql)
cond(sql) == [joiner |-> " AND ", parts |-> <<sql>>]

\* the SQL fragments the handlers write
Fragments ==
    {ThreadParentCond, TypeThreadCond, TypeEqCond, LengthEqCond, SwipeNullCond, SwipeEqCond,
     ReviewedCond, NotReviewedCond, NotRetweetCond, NotReplyCond, ExcludeThreadsCond,
     LikeOne, LikeWordOrStem}

\* the number of ? placeholders of each fragment
FragmentPlaceholders ==
    [sql \in Fragments |-> Cardinality({i \in 1..Len(sql) : At(sql, i) = "?"})]
countPlaceholders(sql) == FragmentPlaceholders[sql]

RECURSIVE sumPlaceholders(_)
sumPlaceholders(parts) ==
    IF Len(parts) = 0 THEN 0
    ELSE countPlaceholders(parts[1]) + sumPlaceholders(Tail(parts))

RECURSIVE wherePlaceholders(_)
wherePlaceholders(conditions) ==
    IF Len(conditions) = 0 THEN 0
    ELSE sumPlaceholders(conditions[1].parts) + wherePlaceholders(Tail(conditions))

\* a variant of threadParentId in which the join never finds the parent
threadParentIdNone(t) == NULL

\* thread_parent.id of LEFT JOIN tweets thread_parent ON t.in_reply_to_tweet_id = thread_parent.id
threadParentId(t) ==
    IF t.in_reply_to_tweet_id # NULL /\ t.in_reply_to_tweet_id \in DOMAIN tweets
    THEN t.in_reply_to_tweet_id ELSE NULL

\* quoted.id of LEFT JOIN tweets quoted ON t.quoted_tweet_id = quoted.id
quotedId(t) ==
    IF t.quoted_tweet_id # NULL /\ t.quoted_tweet_id \in DOMAIN tweets
    THEN t.quoted_tweet_id ELSE NULL

\* the truth of one SQL fragment on a joined row, its placeholders bound to args
fragmentHolds(sql, args, row) ==
    CASE sql = ThreadParentCond ->
            SqlNe(row.t.tweet_type, "thread") \/ row.thread_parent = NULL
      [] sql = LikeOne ->
            row.t.full_text # NULL /\ Like(SqlLower(row.t.full_text), args[1])
      [] sql = LikeWordOrStem ->
            /\ row.t.full_text # NULL
            /\ \/ Like(SqlLower(row.t.full_text), args[1])
               \/ Like(SqlLower(row.t.full_text), args[2])
      [] sql = TypeThreadCond ->
            \E child \in DOMAIN tweets : SqlEq(tweets[child].in_reply_to_tweet_id, row.t.id)
      [] sql = TypeEqCond -> SqlEq(row.t.tweet_type, args[1])
      [] sql = LengthEqCond -> SqlEq(row.t.length_category, args[1])
      [] sql = SwipeNullCond -> row.t.swipe_status = NULL
      [] sql = SwipeEqCond -> SqlEq(row.t.swipe_status, args[1])
      [] sql = ReviewedCond -> row.t.is_reviewed = 1
      [] sql = NotReviewedCond -> row.t.is_reviewed = 0
      [] sql = NotRetweetCond -> SqlNe(row.t.tweet_type, "retweet")
      [] sql = NotReplyCond -> SqlNe(row.t.tweet_type, "reply")
      [] sql = ExcludeThreadsCond ->
            SqlNe(row.t.tweet_type, "thread") \/ row.t.in_reply_to_tweet_id = NULL
      [] OTHER -> FALSE

\* binding: each fragment of a condition takes its arguments left to right
bindCondition(c, args) ==
    [joiner |-> c.joiner,
     parts |-> [k \in 1..Len(c.parts) |->
                  LET before == sumPlaceholders(SubSeq(c.parts, 1, k - 1))
                  IN  [sql |-> c.parts[k],
                       args |-> SubSeq(args, before + 1,
                                       before + countPlaceholders(c.parts[k]))]]]

\* WHERE c1 AND c2 AND ...: each condition takes its arguments left to right
bindWhere(conditions, args) ==
    [k \in 1..Len(conditions) |->
        LET before == wherePlaceholders(SubSeq(conditions, 1, k - 1))
        IN  bindCondition(conditions[k],
                          SubSeq(args, before + 1,
                                 before + sumPlaceholders(conditions[k].parts)))]

conditionHolds(bound, row) ==
    IF bound.joiner = " AND "
    THEN \A k \in 1..Len(bound.parts) :
            fragmentHolds(bound.parts[k].sql, bound.parts[k].args, row)
    ELSE \E k \in 1..Len(bound.parts) :
            fragmentHolds(bound.parts[k].sql, bound.parts[k].args, row)

whereHolds(boundWhere, row) ==
    \A k \in 1..Len(boundWhere) : conditionHolds(boundWhere[k], row)

\* the tags rows that INNER JOIN tweet_tags tt_filter / INNER JOIN tags tag_filter
\* ... AND tag_filter.name IN (names) pairs with the tweet id
tagFilterRows(id, names) ==
    {tg \in tags : /\ tg.name \in names
                   /\ \E tt \in tweet_tags : tt.tweet_id = id /\ tt.tag_id = tg.id}

\* the tags rows that LEFT JOIN tweet_tags tt / LEFT JOIN tags pairs with the tweet id
tagRows(id) ==
    {tg \in tags : \E tt \in tweet_tags : tt.tweet_id = id /\ tt.tag_id = tg.id}

\* FROM tweets t LEFT JOIN thread_parent [joinClause]: the joined rows.
\* joinN is the number of placeholders of joinClause, 0 when it is empty.
fromRows(joinN, args) ==
    UNION {
        {[t |-> tweets[id], thread_parent |-> threadParentId(tweets[id]), tag_filter |-> f] :
            f \in IF joinN = 0 THEN {NULL}
                  ELSE {tg.name : tg \in tagFilterRows(id, {args[k] : k \in 1..joinN})}}
        : id \in DOMAIN tweets}

\* the joined rows that pass WHERE
passingRows(query, args) ==
    LET boundWhere == bindWhere(query.where, SubSeq(args, query.joinN + 1, Len(args)))
    IN  {row \in fromRows(query.joinN, args) : whereHolds(boundWhere, row)}

\* a variant of groupsKept that keeps a group with any of the listed tags
groupsKeptAny(rows, having) ==
    {id \in {row.t.id : row \in rows} :
        \/ having = -1
        \/ Cardinality({row.tag_filter : row \in {r \in rows : r.t.id = id}}) >= 1}

\* GROUP BY t.id [HAVING COUNT(DISTINCT tag_filter.name) = n]: the ids of the groups kept.
\* having is the n of the HAVING clause, -1 when there is none.
groupsKept(rows, having) ==
    {id \in {row.t.id : row \in rows} :
        \/ having = -1
        \/ Cardinality({row.tag_filter : row \in {r \in rows : r.t.id = id}}) = having}

queryPlaceholders(query) == query.joinN + wherePlaceholders(query.where) + query.tailN

\* db.prepare(countQuery).get(...params).total
\*   with HAVING:    SELECT COUNT(*) FROM (SELECT t.id ... GROUP BY t.id HAVING ...)
\*   without HAVING: SELECT COUNT(DISTINCT t.id) ...
countTotal(query, args) ==
    IF query.having # -1
    THEN Cardinality(groupsKept(passingRows(query, args), query.having))
    ELSE Cardinality({row.t.id : row \in passingRows(query, args)})

\* the rows tweetsQuery selects, before ORDER BY and LIMIT/OFFSET: the further
\* LEFT JOINs (quoted, tt, tags) multiply a tweet's rows, GROUP BY t.id folds them
\* (tags.id of a row without a tag is written 0: AUTOINCREMENT ids start at 1)
tweetsSelected(query, args) ==
    LET joined == UNION {
            {[t |-> row.t, thread_parent |-> row.thread_parent,
              tag_filter |-> row.tag_filter, quoted |-> quotedId(row.t), tags |-> tg] :
                tg \in IF tagRows(row.t.id) = {} THEN {0}
                       ELSE {g.id : g \in tagRows(row.t.id)}}
            : row \in passingRows(query, args)}
    IN  groupsKept(joined, query.having)

\* the value ORDER BY t.<column> compares (ai_quality_score is never written: all NULL)
sortKey(id, column) ==
    CASE column = "created_at" -> tweets[id].created_at
      [] column = "favorite_count" -> tweets[id].favorite_count
      [] column = "retweet_count" -> tweets[id].retweet_count
      [] column = "char_count" -> tweets[id].char_count
      [] OTHER -> 0

\* every order of the ids that ORDER BY t.<column> <direction> allows: rows with
\* equal keys come in an order the query does not fix
RECURSIVE orderings(_, _, _)
orderings(ids, column, direction) ==
    IF ids = {} THEN {<< >>}
    ELSE LET first == {a \in ids : \A b \in ids :
                          IF direction = "ASC"
                          THEN sortKey(a, column) <= sortKey(b, column)
                          ELSE sortKey(a, column) >= sortKey(b, column)}
         IN  UNION {{<<a>> \o rest : rest \in orderings(ids \ {a}, column, direction)}
                    : a \in first}

\* LIMIT ? OFFSET ? on an ordered result: a negative LIMIT is no limit, a negative
\* OFFSET is 0
limitOffset(ordered, limit, offset) ==
    LET from == IF offset < 0 THEN 0 ELSE offset
        upto == IF limit < 0 THEN Len(ordered)
                ELSE IF from + limit > Len(ordered) THEN Len(ordered) ELSE from + limit
    IN  SubSeq(ordered, from + 1, upto)

(***************************************************************************)
(* GET /api/tweets                                                         *)
(***************************************************************************)
\* String.prototype.split(','), scanning from index i with the item collected in cur
RECURSIVE splitComma(_, _, _)
splitComma(s, i, cur) ==
    IF i > Len(s) THEN <<cur>>
    ELSE IF At(s, i) = "," THEN <<cur>> \o splitComma(s, i + 1, "")
    ELSE splitComma(s, i + 1, cur \o At(s, i))

\* t.trim() is truthy: some character of t is not white space
trimTruthy(t) == \E i \in 1..Len(t) : ~IsSpace(At(t, i))

\* tag.split(',').filter(t => t.trim())
tagNames(tag) == SelectSeq(splitComma(tag, 1, ""), trimTruthy)

\* the request's query parameters with the destructuring defaults
DefaultQuery ==
    [page |-> "1", limit |-> "50", search |-> "", type |-> "", length |-> "",
     swipe |-> "", tag |-> "", reviewed |-> "",
     excludeRetweets |-> "true", excludeReplies |-> "true", excludeThreads |-> "false",
     sort |-> "created_at", order |-> "desc"]

\* a variant of offset that skips one page too many
offsetByPage(q) ==
    IF parseInt(q.page).kind = "int" /\ parseInt(q.limit).kind = "int"
    THEN JsInt(parseInt(q.page).n * parseInt(q.limit).n) ELSE NaN

\* (parseInt(page) - 1) * parseInt(limit)
offset(q) ==
    LET page == parseInt(q.page)
        limit == parseInt(q.limit)
    IN  IF page.kind = "int" /\ limit.kind = "int"
        THEN JsInt((page.n - 1) * limit.n) ELSE NaN

\* a variant of searchCondition that joins the token clauses with OR
searchConditionAny(clauses) == [joiner |-> " OR ", parts |-> clauses]

\* the search condition: the token clauses joined into one parenthesised condition
searchCondition(clauses) == [joiner |-> " AND ", parts |-> clauses]

\* what if (search) { ... } pushes, given parseSearchQuery(search)
searchPush(search, searchConditions) ==
    IF search # "" /\ Len(searchConditions.conditions) > 0
    THEN [conditions |-> <<searchCondition(searchConditions.conditions)>>,
          params |-> searchConditions.params]
    ELSE [conditions |-> << >>, params |-> << >>]

\* the pushes of the handler, one after the other
RECURSIVE concatPushes(_)
concatPushes(pushes) ==
    IF Len(pushes) = 0 THEN [conditions |-> << >>, params |-> << >>]
    ELSE LET rest == concatPushes(Tail(pushes))
         IN  [conditions |-> pushes[1].conditions \o rest.conditions,
              params |-> pushes[1].params \o rest.params]

NoPush == [conditions |-> << >>, params |-> << >>]
push(sql, params) == [conditions |-> <<cond(sql)>>, params |-> params]

\* conditions.push(`(t.tweet_type != 'thread' OR thread_parent.id IS NULL)`)
threadParentPush(q) == push(ThreadParentCond, << >>)

\* a variant of typePush that compares the stored kind for 'thread' too
typePushEq(q) ==
    IF q.type = "" THEN NoPush ELSE push(TypeEqCond, <<q.type>>)

\* if (type) { ... }
typePush(q) ==
    IF q.type = "" THEN NoPush
    ELSE IF q.type = "thread" THEN push(TypeThreadCond, << >>)
    ELSE push(TypeEqCond, <<q.type>>)

\* if (length) { ... }
lengthPush(q) == IF q.length = "" THEN NoPush ELSE push(LengthEqCond, <<q.length>>)

\* if (swipe) { ... }
swipePush(q) ==
    IF q.swipe = "" THEN NoPush
    ELSE IF q.swipe = "unreviewed" THEN push(SwipeNullCond, << >>)
    ELSE push(SwipeEqCond, <<q.swipe>>)

\* if (reviewed === 'true') { ... } else if (reviewed === 'false') { ... }
reviewedPush(q) ==
    IF q.reviewed = "true" THEN push(ReviewedCond, << >>)
    ELSE IF q.reviewed = "false" THEN push(NotReviewedCond, << >>)
    ELSE NoPush

\* a variant of excludeRetweetsPush that ignores the toggle
excludeRetweetsPushNone(q) == NoPush

\* if (excludeRetweets === 'true') { ... }
excludeRetweetsPush(q) ==
    IF q.excludeRetweets = "true" THEN push(NotRetweetCond, << >>) ELSE NoPush

\* if (excludeReplies === 'true') { ... }
excludeRepliesPush(q) ==
    IF q.excludeReplies = "true" THEN push(NotReplyCond, << >>) ELSE NoPush

\* a variant of excludeThreadsPush that ignores the toggle
excludeThreadsPushNone(q) == NoPush

\* a variant of excludeThreadsPush that pushes the condition whatever the flag says
excludeThreadsPushAlways(q) == push(ExcludeThreadsCond, << >>)

\* if (excludeThreads === 'true') { ... }
excludeThreadsPush(q) ==
    IF q.excludeThreads = "true" THEN push(ExcludeThreadsCond, << >>) ELSE NoPush

\* conditions and params as the handler leaves them before the tag filter
filterConditions(q) ==
    concatPushes(<<threadParentPush(q),
                   searchPush(q.search, parseSearchQuery(q.search)),
                   typePush(q), lengthPush(q), swipePush(q), reviewedPush(q),
                   excludeRetweetsPush(q), excludeRepliesPush(q), excludeThreadsPush(q)>>)

\* joinClause: the number of its tag placeholders, 0 when the clause is empty
joinClause(q) == IF q.tag = "" THEN 0 ELSE Len(tagNames(q.tag))

\* havingClause: HAVING COUNT(DISTINCT tag_filter.name) = ${tags.length}; -1 when empty
havingClause(q) == IF joinClause(q) > 0 THEN Len(tagNames(q.tag)) ELSE -1

\* params after params.unshift(...tags)
queryParams(q, filter) ==
    (IF joinClause(q) > 0 THEN tagNames(q.tag) ELSE << >>) \o filter.params

\* a variant of countQuery that leaves HAVING out
countQueryNoHaving(q, filter) ==
    [joinN |-> joinClause(q), where |-> filter.conditions, having |-> -1, tailN |-> 0]

\* countQuery: with HAVING, a count of the groups kept; without, COUNT(DISTINCT t.id)
countQuery(q, filter) ==
    [joinN |-> joinClause(q), where |-> filter.conditions,
     having |-> havingClause(q), tailN |-> 0]

validSorts == <<"created_at", "favorite_count", "retweet_count", "char_count", "ai_quality_score">>
sortColumn(q) == IF includes(validSorts, q.sort) THEN q.sort ELSE "created_at"
\* a variant of sqlSortOrder that compares the order parameter as it is written
sqlSortOrderExact(q) == IF q.order = "asc" THEN "ASC" ELSE "DESC"

sqlSortOrder(q) == IF toLowerCase(q.order) = "asc" THEN "ASC" ELSE "DESC"

\* tweetsQuery: the same joinClause, whereClause and havingClause, then ORDER BY and
\* LIMIT ? OFFSET ?
tweetsQuery(q, filter) ==
    [joinN |-> joinClause(q), where |-> filter.conditions,
     having |-> havingClause(q), tailN |-> 2]

\* String.prototype.split(':'), scanning from index i with the item collected in cur
RECURSIVE splitColon(_, _, _)
splitColon(s, i, cur) ==
    IF i > Len(s) THEN <<cur>>
    ELSE IF At(s, i) = ":" THEN <<cur>> \o splitColon(s, i + 1, "")
    ELSE splitColon(s, i + 1, cur \o At(s, i))

\* tags.category || ':' || tags.name || ':' || COALESCE(tags.color, '#666')
tagDetail(tg) ==
    tg.category \o ":" \o tg.name \o ":" \o (IF tg.color = NULL THEN "#666" ELSE tg.color)

\* the values GROUP_CONCAT(DISTINCT ...) joins with ',' for the group of the tweet;
\* the order it joins them in is not fixed by the query
tagDetails(id) == {tagDetail(tg) : tg \in tagRows(id)}

\* const [category, name, color] = detail.split(':'); if (name) tags.push(...):
\* a missing third item leaves color undefined
detailTag(detail) ==
    LET items == splitColon(detail, 1, "")
    IN  IF Len(items) >= 2 /\ items[2] # ""
        THEN SetToBag({[category |-> items[1], name |-> items[2],
                        color |-> IF Len(items) >= 3 THEN items[3] ELSE "undefined"]})
        ELSE EmptyBag

\* what the forEach pushes for the items of a split(',')
RECURSIVE detailTags(_)
detailTags(details) ==
    IF Len(details) = 0 THEN EmptyBag
    ELSE detailTag(details[1]) (+) detailTags(Tail(details))

\* tweet.tag_details.split(',').forEach(...): splitting the joined string gives the
\* items of each joined value, so the tags pushed are those of every value.  The list
\* is written as the bag of its elements, their order being that of GROUP_CONCAT.
RECURSIVE tagsOfDetails(_)
tagsOfDetails(details) ==
    IF details = {} THEN EmptyBag
    ELSE LET d == CHOOSE x \in details : TRUE
         IN  detailTags(splitComma(d, 1, "")) (+) tagsOfDetails(details \ {d})

\* one row of tweetsWithTags: { ...tweet, tags } with the columns the query adds.  The
\* columns of t.* are those of tweets[id].
tweetsWithTags(id) ==
    [id |-> id,
     tags |-> tagsOfDetails(tagDetails(id)),
     quoted_text |-> IF quotedId(tweets[id]) = NULL THEN NULL
                     ELSE tweets[quotedId(tweets[id])].full_text,
     quoted_media |-> IF quotedId(tweets[id]) = NULL THEN NULL
                      ELSE tweets[quotedId(tweets[id])].media_url,
     quoted_id |-> quotedId(tweets[id])]

\* the rows of one page, for one of the orders ORDER BY allows
pageOf(ordered, q) ==
    LET page == limitOffset(ordered, parseInt(q.limit).n, offset(q).n)
    IN  [k \in 1..Len(page) |-> tweetsWithTags(page[k])]

\* res.json({tweets, pagination}): one response for each order ORDER BY allows
listResponses(q, total, selected) ==
    {[status |-> 200,
      tweets |-> pageOf(ordered, q),
      pagination |-> [page |-> parseInt(q.page),
                      limit |-> parseInt(q.limit),
                      total |-> total,
                      totalPages |-> ceilDiv(total, parseInt(q.limit))]]
     : ordered \in orderings(selected, sortColumn(q), sqlSortOrder(q))}

\* the two statements run with the bound values.  better-sqlite3 throws when the bound
\* values and the placeholders differ in number, SQLite when LIMIT or OFFSET is bound
\* to NaN: the catch answers 500.
runQueries(q, count, page, params) ==
    IF \/ queryPlaceholders(count) # Len(params)
       \/ queryPlaceholders(page) # Len(params) + 2
       \/ parseInt(q.limit).kind # "int"
       \/ offset(q).kind # "int"
    THEN {[status |-> 500, error |-> "query failed"]}
    ELSE listResponses(q, countTotal(count, params), tweetsSelected(page, params))

buildQueries(q, filter) ==
    runQueries(q, countQuery(q, filter), tweetsQuery(q, filter), queryParams(q, filter))

\* every response the handler can give to the query parameters q on the current store
getTweets(q) == buildQueries(q, filterConditions(q))

(***************************************************************************)
(* GET /api/swipe/queue                                                    *)
(***************************************************************************)
\* the request's query parameters with the destructuring defaults
QueueDefault == [limit |-> "10", tag |-> "", length |-> ""]

\* valString.split(',').filter(v => v)
splitTruthy(s) == SelectSeq(splitComma(s, 1, ""), LAMBDA v : v # "")

\* a variant of queueBase without the swipe_status condition
queueBaseAnyStatus(t) ==
    /\ t.tweet_type # NULL
    /\ t.tweet_type \notin {"retweet", "reply", "thread"}

\* the conditions the handler starts with:
\*   t.swipe_status IS NULL AND t.tweet_type NOT IN ('retweet', 'reply', 'thread')
queueBase(t) ==
    /\ t.swipe_status = NULL
    /\ t.tweet_type # NULL
    /\ t.tweet_type \notin {"retweet", "reply", "thread"}

\* addInCondition('t.length_category', length): t.length_category IN (?, ...), pushed
\* when the parameter has a non-empty item
queueLength(t, length) ==
    \/ Len(splitTruthy(length)) = 0
    \/ /\ t.length_category # NULL
       /\ includes(splitTruthy(length), t.length_category)

\* FROM tweets t [INNER JOIN tweet_tags tt ... INNER JOIN tags ON ... AND tags.name IN
\* (?, ...)] WHERE ...: the joined rows that pass, written by tweet id and tag name
queueRows(q) ==
    LET names == splitTruthy(q.tag)
    IN  UNION {
            {[id |-> id, tag |-> n] :
                n \in IF Len(names) = 0 THEN {NULL}
                      ELSE {tg.name : tg \in tagFilterRows(id, {names[k] : k \in 1..Len(names)})}}
            : id \in {i \in DOMAIN tweets :
                         queueBase(tweets[i]) /\ queueLength(tweets[i], q.length)}}

\* SELECT DISTINCT t.*, quoted.*: the selected columns are those of the tweet, so the
\* rows of one tweet fold into one
queueSelected(q) == {row.id : row \in queueRows(q)}

\* a variant of queueCount that counts the joined rows
queueCountRows(q) == Cardinality(queueRows(q))

\* SELECT COUNT(DISTINCT t.id) as count
queueCount(q) == Cardinality(queueSelected(q))

\* ORDER BY t.favorite_count DESC, t.created_at DESC: a comes no later than b
queueBefore(a, b) ==
    \/ tweets[a].favorite_count > tweets[b].favorite_count
    \/ /\ tweets[a].favorite_count = tweets[b].favorite_count
       /\ tweets[a].created_at >= tweets[b].created_at

\* every order of the ids that the ORDER BY allows
RECURSIVE queueOrderings(_)
queueOrderings(ids) ==
    IF ids = {} THEN {<< >>}
    ELSE LET first == {a \in ids : \A b \in ids : queueBefore(a, b)}
         IN  UNION {{<<a>> \o rest : rest \in queueOrderings(ids \ {a})} : a \in first}

\* res.json({ tweets, remaining: remaining.count }); a row is written by its id
queueResponses(q, selected, count) ==
    {[status |-> 200,
      tweets |-> [k \in 1..Len(limitOffset(ordered, parseInt(q.limit).n, 0)) |->
                    [id |-> limitOffset(ordered, parseInt(q.limit).n, 0)[k]]],
      remaining |-> count]
     : ordered \in queueOrderings(selected)}

\* every response the handler can give: LIMIT bound to NaN makes the statement throw
swipeQueue(q) ==
    IF parseInt(q.limit).kind # "int"
    THEN {[status |-> 500, error |-> "query failed"]}
    ELSE queueResponses(q, queueSelected(q), queueCount(q))

(***************************************************************************)
(* GET /api/export/json and GET /api/export/csv                            *)
(***************************************************************************)
\* the request's query parameters with the destructuring defaults
ExportDefault ==
    [quality |-> "", swipe |-> "", tag |-> "", type |-> "", length |-> "",
     excludeRetweets |-> "true", excludeReplies |-> "true"]

\* `t.column = ?` bound to a value: NULL equals nothing
sqlEquals(column, value) == column # NULL /\ column = value

\* `t.column != 'literal'`: NULL differs from nothing
sqlDiffers(column, literal) == column # NULL /\ column # literal

\* the WHERE clause of the CSV export: the conditions pushed for quality, swipe, type,
\* length, excludeRetweets and excludeReplies
exportWhere(t, q) ==
    /\ q.quality # "" => sqlEquals(t.quality_rating, q.quality)
    /\ q.swipe # "" => sqlEquals(t.swipe_status, q.swipe)
    /\ q.type # "" => sqlEquals(t.tweet_type, q.type)
    /\ q.length # "" => sqlEquals(t.length_category, q.length)
    /\ q.excludeRetweets = "true" => sqlDiffers(t.tweet_type, "retweet")
    /\ q.excludeReplies = "true" => sqlDiffers(t.tweet_type, "reply")

\* INNER JOIN tweet_tags tt ... INNER JOIN tags ON ... AND tags.name = ?, when tag is given
exportJoin(id, q) == q.tag # "" => tagFilterRows(id, {q.tag}) # {}

\* SELECT DISTINCT t.id, ... FROM tweets t ${joinClause} ${whereClause}
exportSelected(q) ==
    {id \in DOMAIN tweets : exportJoin(id, q) /\ exportWhere(tweets[id], q)}

\* GET /api/export/csv: the header line, then one line per selected row in an order
\* ORDER BY t.created_at DESC allows; a line is written by the id it starts with
exportCsv(q) ==
    {[status |-> 200, lines |-> <<"id,full_text,...">> \o ordered]
     : ordered \in orderings(exportSelected(q), "created_at", "DESC")}

\* GET /api/export/json: after the six conditions the handler reads excludeThreads,
\* which it never declared; the ReferenceError reaches the catch before any statement
\* is prepared
exportJson(q) == {[status |-> 500, error |-> "excludeThreads is not defined"]}

(***************************************************************************)
(* Requests are answered one at a time: a handler runs to its response     *)
(* before the next request is taken.                                       *)
(***************************************************************************)
NoRequest == [op |-> "none"]
NoResponse == [status |-> 0]
Idle == req = NoRequest

\* the response has been sent
Respond ==
    /\ ~Idle
    /\ req' = NoRequest
    /\ res' = NoResponse
    /\ UNCHANGED store

(***************************************************************************)
(* Writers of the store                                                    *)
(***************************************************************************)
\* getLengthCategory (import script)
getLengthCategory(charCount) ==
    IF charCount <= 280 THEN "short"
    ELSE IF charCount <= 1000 THEN "medium"
    ELSE "long"

\* the row INSERT OR REPLACE INTO tweets (...) writes for the bound values: the columns
\* the statement does not name take their defaults
importedRow(item) ==
    [id |-> item.id,
     full_text |-> item.full_text,
     created_at |-> item.created_at,
     favorite_count |-> item.favorite_count,
     retweet_count |-> item.retweet_count,
     in_reply_to_tweet_id |-> item.in_reply_to_tweet_id,
     quoted_tweet_id |-> item.quoted_tweet_id,
     media_url |-> NULL,
     char_count |-> Len(item.full_text),
     length_category |-> getLengthCategory(Len(item.full_text)),
     tweet_type |-> item.tweet_type,
     quality_rating |-> NULL,
     ai_quality_score |-> NULL,
     swipe_status |-> NULL,
     is_reviewed |-> 0,
     reviewed_at |-> NULL,
     notes |-> NULL]

\* one insertTweet.run(...) of the import: the row replaces any row with the same id
InsertTweet(item) ==
    /\ Idle
    /\ TweetRowOk(importedRow(item))
    /\ tweets' = [id \in DOMAIN tweets \cup {item.id} |->
                    IF id = item.id THEN importedRow(item) ELSE tweets[id]]
    /\ UNCHANGED <<tags, tweet_tags, tagSeq, swipe_sessions, today, req, res>>

\* a body field that is absent (undefined after destructuring)
Undefined == "undefined"

\* the row INSERT INTO swipe_sessions (session_date, tweets_swiped) VALUES (?, 0) writes
NewSession(day) ==
    [session_date |-> day, tweets_swiped |-> 0, likes |-> 0, superlikes |-> 0,
     dislikes |-> 0, review_later |-> 0]

\* the column updateSessionStats picks for the swipe status, NULL when none
sessionColumn(swipeStatus) ==
    CASE swipeStatus = "like" -> "likes"
      [] swipeStatus = "superlike" -> "superlikes"
      [] swipeStatus = "dislike" -> "dislikes"
      [] swipeStatus = "review_later" -> "review_later"
      [] OTHER -> NULL

\* updateSessionStats(swipeStatus): today's row is created when missing, then
\* tweets_swiped and the status' column are incremented in the rows of today when the
\* status has a column
updateSessionStats(sessions, swipeStatus, day) ==
    LET created == IF \E row \in sessions : row.session_date = day THEN sessions
                   ELSE sessions \cup {NewSession(day)}
    IN  IF sessionColumn(swipeStatus) = NULL THEN created
        ELSE {IF row.session_date = day
              THEN [row EXCEPT !.tweets_swiped = @ + 1,
                               ![sessionColumn(swipeStatus)] = @ + 1]
              ELSE row : row \in created}

\* new Date().toISOString() on the given day
timestamp(day) == "T" \o ToString(day)

\* quality_rating after `if (swipe_status !== undefined) { ... }`
autoQuality(swipeStatus, quality) ==
    CASE swipeStatus = "dislike" -> "low"
      [] swipeStatus = "like" -> "medium"
      [] swipeStatus = "superlike" -> "high"
      [] OTHER -> quality

\* if (is_reviewed !== undefined) { ... }: is_reviewed = ? [, reviewed_at = ?]
reviewedAssignments(t, body, day) ==
    IF body.is_reviewed = Undefined THEN t
    ELSE IF body.is_reviewed = "true"
    THEN [t EXCEPT !.is_reviewed = 1, !.reviewed_at = timestamp(day)]
    ELSE [t EXCEPT !.is_reviewed = 0]

\* the row UPDATE tweets SET ${updates.join(', ')} leaves: the assignments in the order
\* they were pushed, the rightmost assignment of a column being the one that counts
patchedRow(t, body, day) ==
    LET withQuality == IF body.quality_rating = Undefined THEN t
                       ELSE [t EXCEPT !.quality_rating = body.quality_rating]
        withSwipe == IF body.swipe_status = Undefined THEN withQuality
                     ELSE [withQuality EXCEPT
                              !.swipe_status = body.swipe_status,
                              !.is_reviewed = 1,
                              !.reviewed_at = timestamp(day),
                              !.quality_rating = autoQuality(body.swipe_status, @)]
        withNotes == IF body.notes = Undefined THEN withSwipe
                     ELSE [withSwipe EXCEPT !.notes = body.notes]
    IN  reviewedAssignments(withNotes, body, day)

\* a variant of tagKey that keeps the letter case
tagKeyExact(tagName) == tagName

\* tagName.toLowerCase(): the name a tag is stored and looked up by
tagKey(tagName) == toLowerCase(tagName)

\* POST /api/tweets/:id/tags
AddTag(id, tagName, tagCategory) ==
    /\ Idle
    /\ req' = [op |-> "POST /api/tweets/:id/tags", id |-> id,
               tagName |-> tagName, tagCategory |-> tagCategory]
    /\ IF tagName = ""
       THEN /\ res' = [status |-> 400, error |-> "Tag name required"]
            /\ UNCHANGED store
       ELSE LET name == tagKey(tagName)
                exists == \E tg \in tags : tg.name = name
                \* INSERT OR IGNORE INTO tags skips a row that breaks UNIQUE or CHECK;
                \* with no row of that name, tag is undefined and tag.id throws
                created == ~exists /\ tagCategory \in TagCategories
                failed == ~exists /\ tagCategory \notin TagCategories
                tagsAfter == IF created
                             THEN tags \cup {[id |-> tagSeq + 1, name |-> name,
                                              category |-> tagCategory, color |-> NULL]}
                             ELSE tags
                tag == CHOOSE tg \in tagsAfter : tg.name = name
            IN  IF failed
                THEN /\ res' = [status |-> 500, error |-> "CHECK constraint failed"]
                     /\ UNCHANGED store
                ELSE /\ tags' = tagsAfter
                     /\ tagSeq' = IF created THEN tagSeq + 1 ELSE tagSeq
                     /\ tweet_tags' =
                            IF \E tt \in tweet_tags : tt.tweet_id = id /\ tt.tag_id = tag.id
                            THEN tweet_tags
                            ELSE tweet_tags \cup
                                 {[tweet_id |-> id, tag_id |-> tag.id, source |-> "manual"]}
                     /\ res' = [status |-> 200, success |-> TRUE]
                     /\ UNCHANGED <<tweets, swipe_sessions, today>>

\* DELETE /api/tweets/:id/tags/:tagName
RemoveTag(id, tagName) ==
    /\ Idle
    /\ req' = [op |-> "DELETE /api/tweets/:id/tags/:tagName", id |-> id, tagName |-> tagName]
    /\ IF \A tg \in tags : tg.name # tagKey(tagName)
       THEN /\ res' = [status |-> 404, error |-> "Tag not found"]
            /\ UNCHANGED store
       ELSE /\ tweet_tags' =
                  {tt \in tweet_tags :
                      ~(/\ tt.tweet_id = id
                        /\ tt.tag_id = (CHOOSE tg \in tags : tg.name = tagKey(tagName)).id)}
            /\ res' = [status |-> 200, success |-> TRUE]
            /\ UNCHANGED <<tweets, tags, tagSeq, swipe_sessions, today>>

\* PATCH /api/tweets/:id.  updateSessionStats runs while the updates are collected,
\* before the UPDATE; an UPDATE that breaks a CHECK throws and the catch answers 500;
\* an id that names no row updates nothing and answers success.
Patch(id, body) ==
    /\ Idle
    /\ req' = [op |-> "PATCH /api/tweets/:id", id |-> id, body |-> body]
    /\ IF /\ body.quality_rating = Undefined /\ body.swipe_status = Undefined
          /\ body.notes = Undefined /\ body.is_reviewed = Undefined
       THEN /\ res' = [status |-> 400, error |-> "No valid fields to update"]
            /\ UNCHANGED store
       ELSE /\ swipe_sessions' =
                  IF body.swipe_status = Undefined THEN swipe_sessions
                  ELSE updateSessionStats(swipe_sessions, body.swipe_status, today)
            /\ IF id \in DOMAIN tweets /\ ~TweetRowOk(patchedRow(tweets[id], body, today))
               THEN /\ res' = [status |-> 500, error |-> "CHECK constraint failed"]
                    /\ UNCHANGED tweets
               ELSE /\ res' = [status |-> 200, success |-> TRUE]
                    /\ tweets' = [i \in DOMAIN tweets |->
                                    IF i = id THEN patchedRow(tweets[i], body, today)
                                    ELSE tweets[i]]
            /\ UNCHANGED <<tags, tweet_tags, tagSeq, today>>

SwipeQueue(q) ==
    /\ Idle
    /\ req' = [op |-> "GET /api/swipe/queue", query |-> q]
    /\ res' \in swipeQueue(q)
    /\ UNCHANGED store

ExportJson(q) ==
    /\ Idle
    /\ req' = [op |-> "GET /api/export/json", query |-> q]
    /\ res' \in exportJson(q)
    /\ UNCHANGED store

ExportCsv(q) ==
    /\ Idle
    /\ req' = [op |-> "GET /api/export/csv", query |-> q]
    /\ res' \in exportCsv(q)
    /\ UNCHANGED store

GetTweets(q) ==
    /\ Idle
    /\ req' = [op |-> "GET /api/tweets", query |-> q]
    /\ res' \in getTweets(q)
    /\ UNCHANGED store

\* stem called on its own
Stem(word) ==
    /\ Idle
    /\ req' = [op |-> "stem", word |-> word]
    /\ res' = [returned |-> stem(word)]
    /\ UNCHANGED store

\* parseSearchQuery called on its own; the response also shows the tokens
ParseSearchQuery(query) ==
    /\ Idle
    /\ req' = [op |-> "parseSearchQuery", search |-> query]
    /\ \E parsed \in {parseSearchQuery(query)} :
          res' = [tokens |-> searchTokens(query),
                  conditions |-> parsed.conditions,
                  params |-> parsed.params]
    /\ UNCHANGED store

(***************************************************************************)
(* Bounded inputs                                                          *)
(***************************************************************************)
MaxLimit == 2        \* page sizes 1..MaxLimit
MaxPage == 3         \* requested pages 1..MaxPage
MaxTagItems == 3     \* comma-separated items of a tag parameter
MaxChunks == 4       \* blank-separated chunks of a parsed search string
MaxTerms == 2        \* blank-separated chunks of a search string sent to the listing

TextRunning == "I love running every morning"
TextStudies == "Studies show exercise helps"
TextRetweet == "RT running marathon"

TweetIds == {"t1", "t2", "t3"}
textOf(id) == IF id = "t1" THEN TextRunning ELSE IF id = "t2" THEN TextStudies ELSE TextRetweet
createdOf(id) == IF id = "t1" THEN 1 ELSE 2
\* an id no stored tweet has
ExternalId == "t9"

archiveItem(id, kind, parent) ==
    [id |-> id, full_text |-> textOf(id), created_at |-> createdOf(id),
     favorite_count |-> 0, retweet_count |-> 0,
     in_reply_to_tweet_id |-> parent, quoted_tweet_id |-> NULL, tweet_type |-> kind]

\* the archive items the import may bind; tweet_type is what getTweetType gave
\* for the archive entry
ArchiveItems ==
    {archiveItem(id, "text_only", NULL) : id \in TweetIds} \cup
    {archiveItem("t1", "thread", NULL),
     archiveItem("t1", "thread", "t2"),
     archiveItem("t1", "thread", ExternalId),
     archiveItem("t2", "reply", "t1"),
     archiveItem("t2", "thread", "t1"),
     archiveItem("t3", "retweet", NULL),
     archiveItem("t3", "thread", NULL)}

Toggle == {"true", "false"}

\* the query strings of GET /api/tweets sent in Spec
ListingQueries ==
    {[DefaultQuery EXCEPT !.search = s, !.type = ty, !.excludeRetweets = er,
                          !.excludeReplies = ep, !.excludeThreads = et,
                          !.limit = ToString(l), !.page = ToString(pg)] :
        s \in {"", "running"}, ty \in {"", "thread"},
        er \in Toggle, ep \in Toggle, et \in Toggle,
        l \in 1..MaxLimit, pg \in 1..MaxPage}

RECURSIVE SeqsUpTo(_, _)
\* the sequences of at most n elements of S
SeqsUpTo(S, n) ==
    IF n = 0 THEN {<< >>}
    ELSE SeqsUpTo(S, n - 1) \cup
         {Append(sq, e) : sq \in {t \in SeqsUpTo(S, n - 1) : Len(t) = n - 1}, e \in S}

(***************************************************************************)
(* Spec: a fresh database, the import and the listing                      *)
(***************************************************************************)
Init ==
    /\ tweets = << >>
    /\ tags = {}
    /\ tweet_tags = {}
    /\ tagSeq = 0
    /\ swipe_sessions = {}
    /\ today = 1
    /\ req = NoRequest
    /\ res = NoResponse

Next ==
    \/ Idle /\ \E item \in ArchiveItems : InsertTweet(item)
    \/ Idle /\ \E q \in ListingQueries : GetTweets(q)
    \/ Respond

Spec == Init /\ [][Next]_vars

(***************************************************************************)
(* SpecTags: two imported tweets and three tags; tagging and the listing   *)
(***************************************************************************)
TagNames == {"a", "b", "c"}
UnknownTag == "d"
TaggedIds == {"t1", "t2"}

InitTags ==
    /\ tweets = [id \in TaggedIds |-> importedRow(archiveItem(id, "text_only", NULL))]
    /\ tags = {[id |-> 1, name |-> "a", category |-> "topic", color |-> NULL],
               [id |-> 2, name |-> "b", category |-> "custom", color |-> NULL],
               [id |-> 3, name |-> "c", category |-> "use", color |-> NULL]}
    /\ tweet_tags = {}
    /\ tagSeq = 3
    /\ swipe_sessions = {}
    /\ today = 1
    /\ req = NoRequest
    /\ res = NoResponse

\* the tag parameters sent in SpecTags: lists of known and unknown names
TagParams == {join(items, ",") : items \in SeqsUpTo(TagNames \cup {UnknownTag}, MaxTagItems)}

TagQueries ==
    {[DefaultQuery EXCEPT !.tag = tg, !.search = s, !.limit = ToString(l)] :
        tg \in TagParams, s \in {"", "studies"}, l \in 1..MaxLimit}

NextTags ==
    \/ Idle /\ \E name \in {"a", "B", "c"} : AddTag("t1", name, "custom")
    \/ Idle /\ \E name \in {"a", "B"} : AddTag("t2", name, "custom")
    \/ Idle /\ \E q \in TagQueries : GetTweets(q)
    \/ Respond

SpecTags == InitTags /\ [][NextTags]_vars

(***************************************************************************)
(* SpecSearch: four stored tweets; the parser and the free-text filter     *)
(***************************************************************************)
SearchIds == {"t1", "t2", "t3", "t4"}
searchTextOf(id) ==
    CASE id = "t1" -> TextRunning
      [] id = "t2" -> TextStudies
      [] id = "t3" -> "abc"
      [] OTHER -> "Say a_c, 100% sure"
searchCreatedOf(id) ==
    CASE id = "t1" -> 1 [] id = "t2" -> 2 [] id = "t3" -> 3 [] OTHER -> 4

InitSearch ==
    /\ tweets = [id \in SearchIds |->
                    importedRow([archiveItem(id, "text_only", NULL)
                                    EXCEPT !.full_text = searchTextOf(id),
                                           !.created_at = searchCreatedOf(id)])]
    /\ tags = {}
    /\ tweet_tags = {}
    /\ tagSeq = 0
    /\ swipe_sessions = {}
    /\ today = 1
    /\ req = NoRequest
    /\ res = NoResponse

\* search strings: chunks separated by one blank
ParseChunks ==
    {"\"hello world\"", "foo", "the", "bar", "Studies", "went", "constructor",
     "x\"y\tz\"", "\"\"a\"b\"", "b\""}
MatchChunks ==
    {"running", "Studies", "exercise", "marathon", "\"a_c\"", "\"love running\"", "the",
     "100%", "\"RT\""}

ParseQueries == {join(chunks, " ") : chunks \in SeqsUpTo(ParseChunks, MaxChunks)}
MatchQueries == {join(chunks, " ") : chunks \in SeqsUpTo(MatchChunks, MaxTerms)}

NextSearch ==
    \/ Idle /\ \E query \in ParseQueries : ParseSearchQuery(query)
    \/ Idle /\ \E query \in MatchQueries : GetTweets([DefaultQuery EXCEPT !.search = query])
    \/ Respond

SpecSearch == InitSearch /\ [][NextSearch]_vars

(***************************************************************************)
(* Properties of GET /api/tweets and parseSearchQuery                      *)
(***************************************************************************)
Listing == req.op = "GET /api/tweets"
Listed == Listing /\ res.status = 200
Parsed == req.op = "parseSearchQuery"

idsOf(rows) == {rows[k].id : k \in 1..Len(rows)}
returned == idsOf(res.tweets)

\* the ids the request q lists when one page holds them all
wholeListing(q) ==
    UNION {idsOf(r.tweets) :
            r \in {a \in getTweets([q EXCEPT !.page = "1", !.limit = "50"]) : a.status = 200}}

\* the stored tweet id as the listing's FROM clause joins it, without a tag filter
joinedRow(id) ==
    [t |-> tweets[id], thread_parent |-> threadParentId(tweets[id]), tag_filter |-> NULL]

\* the tweet passes every condition the request q pushes other than sql
\* (sql is one of the conditions that bind no value)
passesExcept(id, q, sql) ==
    LET filter == filterConditions(q)
        others == SelectSeq(filter.conditions, LAMBDA c : c # cond(sql))
    IN  whereHolds(bindWhere(others, filter.params), joinedRow(id))

carries(id, name) ==
    \E tt \in tweet_tags, tg \in tags :
        tt.tweet_id = id /\ tt.tag_id = tg.id /\ tg.name = name

pairwiseDistinct(sq) == \A i, j \in 1..Len(sq) : sq[i] = sq[j] => i = j
isThread(id) == tweets[id].tweet_type = "thread"
Min(a, b) == IF a <= b THEN a ELSE b

\* C1: pagination.total is the number of distinct entries the page query selects
\* without LIMIT/OFFSET, and the count query carries the same HAVING as the page query.
C1_TotalCountsSelectedEntries ==
    Listed =>
        LET q == req.query
            filter == filterConditions(q)
        IN  /\ res.pagination.total =
                  Cardinality(tweetsSelected(tweetsQuery(q, filter), queryParams(q, filter)))
            /\ countQuery(q, filter).having = tweetsQuery(q, filter).having

\* two tweets carry tag a, one of them also b: tag=a,b counts one entry
C1_Witness ==
    /\ Listed
    /\ req.query.tag = "a,b"
    /\ carries("t1", "a") /\ carries("t1", "b")
    /\ carries("t2", "a") /\ ~carries("t2", "b")
    /\ res.pagination.total = 1

\* C2: with a tag parameter of pairwise distinct names, the entries listed are those
\* that pass the other filters and carry every listed tag; a name no tag has yields
\* no entry and no error.
C2_TagsAreConjoined ==
    (/\ Listing
     /\ tagNames(req.query.tag) # << >>
     /\ pairwiseDistinct(tagNames(req.query.tag))) =>
        LET q == req.query
            names == {tagNames(q.tag)[k] : k \in 1..Len(tagNames(q.tag))}
            expected == {id \in wholeListing([q EXCEPT !.tag = ""]) :
                            \A n \in names : carries(id, n)}
        IN  /\ res.status = 200
            /\ returned \subseteq expected
            /\ Len(res.tweets) = Min(parseInt(q.limit).n, Cardinality(expected))
            /\ res.pagination.total = Cardinality(expected)
            /\ (\E n \in names : \A tg \in tags : tg.name # n) => res.tweets = << >>

\* t1 carries a, b and c and is listed for tag=a,b; t2 carries only a and is not
C2_Witness ==
    /\ Listed
    /\ req.query.tag = "a,b"
    /\ req.query.search = ""
    /\ carries("t1", "a") /\ carries("t1", "b") /\ carries("t1", "c")
    /\ carries("t2", "a") /\ ~carries("t2", "b")
    /\ returned = {"t1"}

\* the clause of one token, on its own, holds of the stored tweet id
tokenHolds(token, id) ==
    conditionHolds(bindCondition([joiner |-> " AND ", parts |-> tokenClause(token).conditions],
                                 tokenClause(token).params),
                   joinedRow(id))

\* C3: for a search string of two or more tokens, the entries listed are those whose
\* text satisfies the clause of every token.
C3_TokensAreConjoined ==
    (Listed /\ Len(searchTokens(req.query.search)) >= 2) =>
        returned = {id \in DOMAIN tweets :
                        \A k \in 1..Len(searchTokens(req.query.search)) :
                            tokenHolds(searchTokens(req.query.search)[k], id)}

\* t1 matches running, t2 matches exercise, no tweet matches both
C3_Witness ==
    /\ Listed
    /\ req.query.search = "running exercise"
    /\ tokenHolds([type |-> "word", value |-> "running"], "t1")
    /\ tokenHolds([type |-> "word", value |-> "exercise"], "t2")
    /\ returned = {}

\* the lengths of page p of the request q on the current store
pageLengths(q, p) == {Len(r.tweets) : r \in getTweets([q EXCEPT !.page = ToString(p)])}

RECURSIVE sumPages(_, _)
sumPages(q, n) ==
    IF n = 0 THEN 0 ELSE (CHOOSE len \in pageLengths(q, n) : TRUE) + sumPages(q, n - 1)

\* C4: totalPages is ceil(total / limit), page p starts at offset (p - 1) * limit, the
\* pages 1..totalPages hold total entries together and every later page is empty.
C4_PagesSumToTotal ==
    Listed =>
        LET q == req.query
            limit == parseInt(q.limit).n
            page == parseInt(q.page).n
            total == res.pagination.total
            totalPages == res.pagination.totalPages
        IN  /\ limit > 0
            /\ totalPages.kind = "int"
            /\ (totalPages.n - 1) * limit < total
            /\ total <= totalPages.n * limit
            /\ offset(q) = JsInt((page - 1) * limit)
            /\ Len(res.tweets) = IF page <= totalPages.n
                                 THEN Min(limit, total - (page - 1) * limit)
                                 ELSE 0
            /\ page = 1 =>
                  /\ \A p \in 1..(totalPages.n + 1) : Cardinality(pageLengths(q, p)) = 1
                  /\ sumPages(q, totalPages.n) = total
                  /\ pageLengths(q, totalPages.n + 1) = {0}

\* three entries, two to a page: the second page holds the last one
C4_Witness ==
    /\ Listed
    /\ req.query.limit = "2"
    /\ req.query.page = "2"
    /\ res.pagination.total = 3
    /\ res.pagination.totalPages = JsInt(2)
    /\ Len(res.tweets) = 1

\* a thread tweet whose parent is stored
hiddenThread(id) == isThread(id) /\ tweets[id].in_reply_to_tweet_id \in DOMAIN tweets

\* C5: a thread tweet whose parent is stored is never listed; a thread tweet whose
\* parent is null or not stored is listed when it passes the other filters and
\* excludeThreads is at its default.
C5_ThreadsWithStoredParentHidden ==
    Listed =>
        /\ \A id \in returned : ~hiddenThread(id)
        /\ req.query.excludeThreads = "false" =>
              \A id \in DOMAIN tweets :
                  (/\ isThread(id)
                   /\ ~hiddenThread(id)
                   /\ passesExcept(id, req.query, ThreadParentCond)) =>
                      id \in wholeListing(req.query)

\* t1 continues a thread whose parent is not stored, t2 continues t1
C5_Witness ==
    /\ Listed
    /\ DOMAIN tweets = {"t1", "t2"}
    /\ isThread("t1") /\ tweets["t1"].in_reply_to_tweet_id = ExternalId
    /\ isThread("t2") /\ tweets["t2"].in_reply_to_tweet_id = "t1"
    /\ req.query.limit = "2"
    /\ returned = {"t1"}

\* C6: with excludeThreads=true no thread tweet with a non-null in_reply_to_tweet_id is
\* listed, and every thread tweet with a null one is when it passes the other filters.
C6_ExcludeThreadsKeepsStarters ==
    (Listed /\ req.query.excludeThreads = "true") =>
        /\ \A id \in returned :
              ~(isThread(id) /\ tweets[id].in_reply_to_tweet_id # NULL)
        /\ \A id \in DOMAIN tweets :
              (/\ isThread(id)
               /\ tweets[id].in_reply_to_tweet_id = NULL
               /\ passesExcept(id, req.query, ExcludeThreadsCond)) =>
                  id \in wholeListing(req.query)

\* t1 answers a tweet that is not stored, t3 starts a thread: only t3 is listed
C6_Witness ==
    /\ Listed
    /\ req.query.excludeThreads = "true"
    /\ DOMAIN tweets = {"t1", "t3"}
    /\ isThread("t1") /\ tweets["t1"].in_reply_to_tweet_id = ExternalId
    /\ isThread("t3") /\ tweets["t3"].in_reply_to_tweet_id = NULL
    /\ req.query.limit = "2"
    /\ returned = {"t3"}

\* the clause and parameters the claim gives for one token
statedClause(token) ==
    LET word == toLowerCase(token.value)
        stemmed == stem(word)
        differs == stemmed.type # "string" \/ stemmed.value # word
    IN  IF token.type = "word" /\ differs /\ stemmed.length >= 3
        THEN [conditions |-> <<LikeWordOrStem>>,
              params |-> <<"%" \o word \o "%", "%" \o stemText(stemmed) \o "%">>]
        ELSE [conditions |-> <<LikeOne>>, params |-> <<"%" \o word \o "%">>]

RECURSIVE statedClauses(_)
statedClauses(toks) ==
    IF Len(toks) = 0 THEN [conditions |-> << >>, params |-> << >>]
    ELSE LET first == statedClause(toks[1])
             rest == statedClauses(Tail(toks))
         IN  [conditions |-> first.conditions \o rest.conditions,
              params |-> first.params \o rest.params]

\* C7: a word token gives (word OR stem) with the parameters word then stem exactly when
\* the stem differs from the lowercased word and has length at least 3, else the single
\* word clause with one parameter; placeholders and parameters are equal in number.
C7_WordClauses ==
    Parsed =>
        /\ res.conditions = statedClauses(res.tokens).conditions
        /\ res.params = statedClauses(res.tokens).params
        /\ sumPlaceholders(res.conditions) = Len(res.params)

\* studies has the stem study, went has the stem go, which is too short
C7_Witness ==
    /\ Parsed
    /\ req.search = "Studies went"
    /\ res.conditions = <<LikeWordOrStem, LikeOne>>
    /\ res.params = <<"%studies%", "%study%", "%went%">>

\* the token, read as a literal substring, occurs in the text of the stored tweet id
literalHolds(token, id) ==
    LET text == toLowerCase(tweets[id].full_text)
        word == toLowerCase(token.value)
    IN  \/ Contains(text, word)
        \/ /\ token.type = "word"
           /\ Len(statedClause(token).params) = 2
           /\ Contains(text, stemText(stem(word)))

\* C8: a token's clause holds of an entry iff the lowercased text contains the
\* lowercased phrase (or the word, or its stem) as a literal substring, % and _ included.
C8_ClausesMatchLiterally ==
    (Listed /\ Len(searchTokens(req.query.search)) = 1) =>
        /\ searchTokens(req.query.search)[1].type = "phrase" =>
              Len(parseSearchQuery(req.query.search).conditions) = 1
        /\ returned = {id \in DOMAIN tweets :
                          literalHolds(searchTokens(req.query.search)[1], id)}

\* the query with every quoted substring replaced, where it stands, by a blank
RECURSIVE cutPhrases(_, _)
cutPhrases(query, matches) ==
    IF Len(matches) = 0 THEN query
    ELSE cutPhrases(SubSeq(query, 1, matches[Len(matches)].from - 1) \o " "
                        \o SubSeq(query, matches[Len(matches)].to + 1, Len(query)),
                    SubSeq(matches, 1, Len(matches) - 1))

\* C9: the tokens are the quoted phrases in order, then the words of the query with the
\* quoted substrings removed, in order, less the words shorter than 2 characters and
\* the stop words (compared in lower case).
C9_PhrasesThenWords ==
    Parsed =>
        LET matches == quotedRegexExec(req.search, 1)
            phrases == [k \in 1..Len(matches) |->
                          [type |-> "phrase",
                           value |-> SubSeq(req.search, matches[k].from + 1,
                                            matches[k].to - 1)]]
            kept == SelectSeq(splitWords(cutPhrases(req.search, matches), 1, ""),
                              LAMBDA w : Len(w) >= 2 /\ ~includes(stopWords, toLowerCase(w)))
        IN  res.tokens = phrases \o [k \in 1..Len(kept) |-> [type |-> "word", value |-> kept[k]]]

\* the store of the scenario: E1 and E2 text_only, E3 a retweet
ScenarioStore ==
    /\ DOMAIN tweets = TweetIds
    /\ tweets["t1"].tweet_type = "text_only" /\ tweets["t1"].full_text = TextRunning
    /\ tweets["t2"].tweet_type = "text_only" /\ tweets["t2"].full_text = TextStudies
    /\ tweets["t3"].tweet_type = "retweet" /\ tweets["t3"].full_text = TextRetweet

\* C10: with excludeRetweets (excludeReplies) absent or 'true' no retweet (reply) is
\* listed, with 'false' those that pass the other filters are; over the scenario's
\* store search=running with excludeRetweets=true lists exactly E1.
C10_RetweetAndReplyToggles ==
    Listed =>
        /\ req.query.excludeRetweets = "true" =>
              \A id \in returned : tweets[id].tweet_type # "retweet"
        /\ req.query.excludeReplies = "true" =>
              \A id \in returned : tweets[id].tweet_type # "reply"
        /\ req.query.excludeRetweets = "false" =>
              \A id \in DOMAIN tweets :
                  (/\ tweets[id].tweet_type = "retweet"
                   /\ passesExcept(id, req.query, NotRetweetCond)) =>
                      id \in wholeListing(req.query)
        /\ req.query.excludeReplies = "false" =>
              \A id \in DOMAIN tweets :
                  (/\ tweets[id].tweet_type = "reply"
                   /\ passesExcept(id, req.query, NotReplyCond)) =>
                      id \in wholeListing(req.query)
        /\ (/\ ScenarioStore
            /\ req.query.search = "running"
            /\ req.query.excludeRetweets = "true"
            /\ req.query.type = ""
            /\ req.query.page = "1") =>
              returned = {"t1"} /\ res.pagination.total = 1

\* the scenario: E3 contains running and is a retweet, only E1 is listed
C10_Witness ==
    /\ Listed
    /\ ScenarioStore
    /\ req.query.search = "running"
    /\ req.query.excludeRetweets = "true"
    /\ req.query.type = ""
    /\ req.query.page = "1"
    /\ Like(SqlLower(tweets["t3"].full_text), "%running%")
    /\ returned = {"t1"}

(***************************************************************************)
(* SpecKinds: seven stored tweets of the six kinds; the listing with its   *)
(* type, page, limit, sort and order parameters                            *)
(***************************************************************************)
KindIds == {"k1", "k2", "k3", "k4", "k5", "k6", "k7"}

kindCreatedOf(id) ==
    CASE id = "k1" -> 1 [] id = "k2" -> 2 [] id = "k3" -> 3 [] id = "k4" -> 4
      [] id = "k5" -> 5 [] id = "k6" -> 6 [] OTHER -> 7

\* favorite_count of the stored tweets: k1 and k6 tie
kindFavoritesOf(id) ==
    CASE id = "k1" -> 5 [] id = "k3" -> 9 [] id = "k6" -> 5 [] id = "k7" -> 1 [] OTHER -> 0

kindItem(id, kind, parent, quotedTweet) ==
    [archiveItem(id, kind, parent) EXCEPT !.full_text = "Post " \o id,
                                          !.created_at = kindCreatedOf(id),
                                          !.favorite_count = kindFavoritesOf(id),
                                          !.quoted_tweet_id = quotedTweet]

\* k1 text_only with the reply k2 under it; k3 a thread start with k4 under it;
\* k5 a retweet; k6 media; k7 a quote of k1
KindItems ==
    {kindItem("k1", "text_only", NULL, NULL),
     kindItem("k2", "reply", "k1", NULL),
     kindItem("k3", "thread", NULL, NULL),
     kindItem("k4", "thread", "k3", NULL),
     kindItem("k5", "retweet", NULL, NULL),
     kindItem("k6", "media", NULL, NULL),
     kindItem("k7", "quote", NULL, "k1")}

\* re-imports that change the reply structure
KindReimports ==
    {kindItem("k2", "reply", "k1", NULL),
     kindItem("k2", "reply", "k6", NULL),
     kindItem("k4", "thread", "k3", NULL),
     kindItem("k4", "thread", ExternalId, NULL)}

InitKinds ==
    /\ tweets = [id \in KindIds |-> importedRow(CHOOSE item \in KindItems : item.id = id)]
    /\ tags = {}
    /\ tweet_tags = {}
    /\ tagSeq = 0
    /\ swipe_sessions = {}
    /\ today = 1
    /\ req = NoRequest
    /\ res = NoResponse

\* the values of the type parameter: the six kinds, the thread-start value (which is
\* also the name of a kind) and a value that is no kind
TypeValues == TweetTypes \cup {"bogus"}

TypeQueries ==
    {[DefaultQuery EXCEPT !.type = ty, !.excludeRetweets = er,
                          !.excludeReplies = ep, !.excludeThreads = et] :
        ty \in TypeValues, er \in Toggle, ep \in Toggle, et \in Toggle}

\* page and limit values: positive, zero, negative, not a number, empty
PageValues == {"1", "2", "0", "-1", "abc", ""}
LimitValues == {"50", "2", "0", "-5", "abc", ""}

PagingQueries ==
    {[DefaultQuery EXCEPT !.page = pg, !.limit = l] : pg \in PageValues, l \in LimitValues}

\* sort values in and outside the allow-list, order values in several letter cases
SortValues == {"created_at", "favorite_count", "invalid_column", "id", ""}
OrderValues == {"asc", "ASC", "Asc", "desc", "up", ""}

SortQueries ==
    {[DefaultQuery EXCEPT !.sort = so, !.order = o] : so \in SortValues, o \in OrderValues}

\* searches made of stop words, one-letter words and blanks only, and two that are not
StopSearches == {"the", "a I", "The  of", " ", "x"}
SearchValues == StopSearches \cup {"post", "the k1"}

StopQueries ==
    {[DefaultQuery EXCEPT !.search = s, !.type = ty, !.excludeRetweets = er,
                          !.excludeReplies = ep, !.limit = l, !.order = o] :
        s \in SearchValues, ty \in {"", "thread"}, er \in Toggle, ep \in Toggle,
        l \in {"50", "2"}, o \in {"desc", "asc"}}

KindQueries == TypeQueries \cup PagingQueries \cup SortQueries \cup StopQueries

NextKinds ==
    \/ Idle /\ \E item \in KindReimports : InsertTweet(item)
    \/ Idle /\ \E q \in KindQueries : GetTweets(q)
    \/ Respond

SpecKinds == InitKinds /\ [][NextKinds]_vars

\* the tweet passes every condition the request q pushes other than the type filter
passesOtherThanType(id, q) ==
    LET filter == filterConditions([q EXCEPT !.type = ""])
    IN  whereHolds(bindWhere(filter.conditions, filter.params), joinedRow(id))

\* some other stored tweet replies to the tweet
hasChild(id) ==
    \E other \in DOMAIN tweets \ {id} : tweets[other].in_reply_to_tweet_id = id

\* the tweets a type value stands for
typeStandsFor(id, type) ==
    IF type = "thread" THEN hasChild(id) ELSE tweets[id].tweet_type = type

positiveInt(s) == parseInt(s).kind = "int" /\ parseInt(s).n > 0

\* the query with a page or limit that is not a positive integer replaced by the default
pagingDefaulted(q) ==
    [q EXCEPT !.page = IF positiveInt(q.page) THEN q.page ELSE DefaultQuery.page,
              !.limit = IF positiveInt(q.limit) THEN q.limit ELSE DefaultQuery.limit]

\* C12: a request whose page or limit is not a positive integer is answered as the
\* request with the default in its place (page 1, limit 50) is: same entries, same
\* pagination object, no error response, a finite totalPages.
C12_InvalidPagingDefaults ==
    Listing => res \in getTweets(pagingDefaulted(req.query))

\* the strings are equal up to the case of their letters
equalsIgnoringCase(a, b) ==
    /\ Len(a) = Len(b)
    /\ \A i \in 1..Len(a) : LowerChar(At(a, i)) = LowerChar(At(b, i))

\* the rows come in the given direction of the column
sortedBy(rows, column, ascending) ==
    \A k \in 1..(Len(rows) - 1) :
        IF ascending
        THEN sortKey(rows[k].id, column) <= sortKey(rows[k + 1].id, column)
        ELSE sortKey(rows[k].id, column) >= sortKey(rows[k + 1].id, column)

\* C13: a sort value outside the allow-list is answered without error and ordered by
\* created_at; the direction is ascending iff order is 'asc' in any letter case,
\* descending for every other value.
C13_SortFallback ==
    (Listing /\ positiveInt(req.query.page) /\ positiveInt(req.query.limit)) =>
        /\ res.status = 200
        /\ sortedBy(res.tweets,
                    IF includes(validSorts, req.query.sort) THEN req.query.sort
                    ELSE "created_at",
                    equalsIgnoringCase(req.query.order, "asc"))

\* sort=invalid_column with order=ASC lists several tweets, oldest first
C13_Witness ==
    /\ Listed
    /\ req.query.sort = "invalid_column"
    /\ req.query.order = "ASC"
    /\ Len(res.tweets) >= 2
    /\ \A k \in 1..(Len(res.tweets) - 1) :
            tweets[res.tweets[k].id].created_at < tweets[res.tweets[k + 1].id].created_at

(***************************************************************************)
(* SpecStem: stem applied to words                                         *)
(***************************************************************************)
MaxSuffixes == 2     \* endings appended to a stem base

UpperChar(c) ==
    IF \E i \in 1..Len(LowerAlpha) : At(LowerAlpha, i) = c
    THEN At(UpperAlpha, IndexOf(LowerAlpha, c)) ELSE c

RECURSIVE toUpperCase(_)
toUpperCase(s) == IF Len(s) = 0 THEN "" ELSE UpperChar(At(s, 1)) \o toUpperCase(SubSeq(s, 2, Len(s)))

capitalize(s) == IF Len(s) = 0 THEN "" ELSE UpperChar(At(s, 1)) \o SubSeq(s, 2, Len(s))

\* the endings the two if/else-if chains of stem look for
Suffixes == {"s", "es", "ies", "ied", "ing", "ed", "ness", "ment", "ly", "ful", "less",
             "tion", "er", "est", "able", "ible"}
StemBases == {"cat", "stud", "happi", "hopp", "glass"}

\* bases with up to MaxSuffixes endings: cats, studies, happiness, hopping, ...
SuffixedWords ==
    {base \o join(endings, "") : base \in StemBases, endings \in SeqsUpTo(Suffixes, MaxSuffixes)}

\* words shorter than 3 characters, two of them keys of irregulars
ShortWords == {"", "a", "is", "am", "be", "ox", "s"}
\* names of properties every object inherits
PropertyWords == {"constructor", "toString", "valueOf", "hasOwnProperty", "__proto__"}
\* words with characters that are no letters, and words that contain a key of irregulars
OtherWords == {"100%", "don't", "hello-world", "a1b2", "rank", "grant", "isle", "amber",
               "women's", "runner"}

LowerWords ==
    {e[1] : e \in irregularEntries} \cup SuffixedWords \cup ShortWords \cup PropertyWords
        \cup OtherWords

StemWords == LowerWords \cup {capitalize(w) : w \in LowerWords} \cup {toUpperCase(w) : w \in LowerWords}

NextStem ==
    \/ Idle /\ \E word \in StemWords : Stem(word)
    \/ Respond

SpecStem == Init /\ [][NextStem]_vars

Stemmed == req.op = "stem"

\* C14: stem returns a string for every input string.
C14_StemReturnsString ==
    Stemmed => res.returned.type = "string"

\* the roots the documentation gives: <<word, root>>
DocumentedRoots ==
    {<<"running", "run">>, <<"studies", "study">>, <<"children", "child">>,
     <<"cats", "cat">>, <<"happiness", "happi">>}

\* C15: stem gives the documented roots (running -> run, studies -> study,
\* children -> child, cats -> cat, happiness -> happi) and the same result for a word
\* and for its lower case.
C15_DocumentedRoots ==
    Stemmed =>
        /\ \A d \in DocumentedRoots :
              toLowerCase(req.word) = d[1] => res.returned = JsString(d[2])
        /\ res.returned = stem(toLowerCase(req.word))

\* stem('STUDIES') has returned 'study'
C15_Witness ==
    /\ Stemmed
    /\ req.word = "STUDIES"
    /\ res.returned = JsString("study")

\* C16: an input shorter than 3 characters comes back lowercased and otherwise
\* unchanged, keys of irregulars ('is', 'am') included; an input of 3 or more characters
\* takes the root of irregulars exactly when its lower case is a key, and the suffix
\* rules otherwise.
C16_LengthFloorBeforeIrregulars ==
    Stemmed =>
        LET w == toLowerCase(req.word)
        IN  /\ Len(req.word) < 3 => res.returned = JsString(w)
            /\ (Len(req.word) >= 3 /\ w \in DOMAIN irregulars) =>
                  res.returned = JsString(irregulars[w])
            /\ (Len(req.word) >= 3 /\ w \notin DOMAIN irregulars
                                   /\ w \notin DOMAIN ObjectPrototype) =>
                  res.returned = JsString(stemSuffix(stemPlural(w)))

\* stem('Is') has returned 'is', not the root 'be' of the key 'is'
C16_Witness ==
    /\ Stemmed
    /\ req.word = "Is"
    /\ irregulars["is"] = "be"
    /\ res.returned = JsString("is")

(***************************************************************************)
(* SpecQueue: six stored tweets and two tags; tagging, untagging and the   *)
(* swipe queue                                                             *)
(***************************************************************************)
MaxQueueLimit == 2   \* queue sizes 0..MaxQueueLimit, besides the default

QueueIds == {"q1", "q2", "q3", "q4", "q5", "q6"}

queueItem(id, kind, favorites, created) ==
    [archiveItem(id, kind, NULL) EXCEPT !.full_text = "Post " \o id,
                                        !.favorite_count = favorites,
                                        !.created_at = created]

\* q2 and q6 tie on favorite_count and created_at; q4 is a reply to a tweet not stored
QueueItems ==
    {queueItem("q1", "text_only", 5, 1),
     queueItem("q2", "media", 5, 2),
     queueItem("q3", "quote", 9, 3),
     [queueItem("q4", "reply", 7, 4) EXCEPT !.in_reply_to_tweet_id = ExternalId],
     queueItem("q5", "text_only", 0, 5),
     queueItem("q6", "text_only", 5, 2)}

\* the imported tweets, q3 swiped since (PATCH /api/tweets/:id with swipe_status 'like')
InitQueue ==
    /\ tweets = [id \in QueueIds |->
                    IF id = "q3"
                    THEN [importedRow(CHOOSE item \in QueueItems : item.id = id)
                            EXCEPT !.swipe_status = "like", !.is_reviewed = 1,
                                   !.quality_rating = "medium"]
                    ELSE importedRow(CHOOSE item \in QueueItems : item.id = id)]
    /\ tags = {[id |-> 1, name |-> "a", category |-> "topic", color |-> "#8B4513"],
               [id |-> 2, name |-> "b", category |-> "custom", color |-> NULL]}
    /\ tweet_tags = {}
    /\ tagSeq = 2
    /\ swipe_sessions = {}
    /\ today = 1
    /\ req = NoRequest
    /\ res = NoResponse

QueueQueries ==
    {[QueueDefault EXCEPT !.limit = l, !.tag = tg, !.length = len] :
        l \in {QueueDefault.limit, "abc"} \cup {ToString(n) : n \in 0..MaxQueueLimit},
        tg \in {"", "a", "a,b", "b,a", "a,d", "c"},
        len \in {"", "short", "long,short"}}

NextQueue ==
    \/ Idle /\ \E id \in {"q1", "q2"}, name \in {"a", "B", "C", ""} : AddTag(id, name, "custom")
    \/ Idle /\ AddTag("q3", "a", "topic")
    \/ Idle /\ AddTag("q2", "e", "mood")
    \/ Idle /\ \E id \in {"q1", "q2"}, name \in {"A", "b", "d"} : RemoveTag(id, name)
    \/ Idle /\ \E q \in QueueQueries : SwipeQueue(q)
    \/ Respond

SpecQueue == InitQueue /\ [][NextQueue]_vars

Queued == req.op = "GET /api/swipe/queue" /\ res.status = 200

\* the tag filter of GET /api/swipe/queue lets the tweet through
queueTagPasses(id, tag) ==
    \E row \in queueRows([QueueDefault EXCEPT !.tag = tag]) : row.id = id

\* the tag filter of GET /api/tweets lets the tweet through: the tweet is among the
\* groups the page query keeps when only the tag filter is applied
listingTagPasses(id, tag) ==
    id \in tweetsSelected([joinN |-> joinClause([DefaultQuery EXCEPT !.tag = tag]),
                           where |-> << >>,
                           having |-> havingClause([DefaultQuery EXCEPT !.tag = tag]),
                           tailN |-> 2],
                          IF joinClause([DefaultQuery EXCEPT !.tag = tag]) > 0
                          THEN tagNames(tag) ELSE << >>)

\* C17: for a tag list of two or more distinct names, an entry passes the queue's tag
\* filter iff it passes the listing's, i.e. iff it carries every listed tag.
C17_QueueTagsConjoined ==
    (/\ Queued
     /\ Len(splitTruthy(req.query.tag)) >= 2
     /\ pairwiseDistinct(splitTruthy(req.query.tag))) =>
        \A id \in {i \in DOMAIN tweets : queueBase(tweets[i])} :
            /\ queueTagPasses(id, req.query.tag) <=> listingTagPasses(id, req.query.tag)
            /\ queueTagPasses(id, req.query.tag) <=>
                  \A k \in 1..Len(splitTruthy(req.query.tag)) :
                      carries(id, splitTruthy(req.query.tag)[k])

\* the entries the queue's predicate matches: unswiped, of a kind other than retweet,
\* reply and thread, of a listed length, carrying a listed tag
queueMatching(q) ==
    {id \in DOMAIN tweets :
        /\ tweets[id].swipe_status = NULL
        /\ tweets[id].tweet_type \notin {"retweet", "reply", "thread"}
        /\ queueLength(tweets[id], q.length)
        /\ queueTagPasses(id, q.tag)}

Added == req.op = "POST /api/tweets/:id/tags"
Removed == req.op = "DELETE /api/tweets/:id/tags/:tagName"

\* the association of the tweet with the tag of that name
associations(rows, id, name) ==
    {tt \in rows : tt.tweet_id = id /\ \E tg \in tags : tg.id = tt.tag_id /\ tg.name = name}

\* tag names are unique and lowercase, and a tweet is associated with a tag at most once
tagsWellFormed ==
    /\ \A a, b \in tags : a.name = b.name => a = b
    /\ \A tg \in tags : tg.name = toLowerCase(tg.name)
    /\ \A a, b \in tweet_tags : (a.tweet_id = b.tweet_id /\ a.tag_id = b.tag_id) => a = b

\* an add-tag request naming a stored tag in any letter case leaves the tags as they
\* are and the tweet with one association to that tag
addKeepsOne ==
    (Added' /\ \E tg \in tags : tg.name = toLowerCase(req'.tagName)) =>
        /\ tags' = tags
        /\ Cardinality(associations(tweet_tags', req'.id, toLowerCase(req'.tagName))) = 1
        /\ tweet_tags \subseteq tweet_tags'

\* a remove-tag request deletes at most the association of that tweet with that tag
removeKeepsTag ==
    Removed' =>
        /\ tags' = tags
        /\ tweet_tags' \subseteq tweet_tags
        /\ tweet_tags \ tweet_tags' \subseteq
              associations(tweet_tags, req'.id, toLowerCase(req'.tagName))
        /\ res'.status = 200 =>
              associations(tweet_tags', req'.id, toLowerCase(req'.tagName)) = {}

\* C20: through add-tag and remove-tag requests tag names stay unique and lowercase;
\* adding a name that exists in any letter case creates no second tag and no second
\* association for the entry; removing a tag from an entry deletes that association
\* only, never the tag.
C20_TagsUniqueLowercase ==
    /\ []tagsWellFormed
    /\ [][addKeepsOne /\ removeKeepsTag]_vars

\* tag b exists and q1 carries it; POST tagName 'B' for q1 has answered 200 with one
\* tag named b and one association
C20_Witness ==
    /\ Added
    /\ req.id = "q1" /\ req.tagName = "B"
    /\ res.status = 200
    /\ Cardinality({tg \in tags : toLowerCase(tg.name) = "b"}) = 1
    /\ Cardinality(associations(tweet_tags, "q1", "b")) = 1
    /\ tagSeq = 2

(***************************************************************************)
(* SpecDecor: three stored tweets, two of them quotes; tagging with names  *)
(* of any characters and the listing's decorated rows                      *)
(***************************************************************************)
DecorIds == {"d1", "d2", "d3"}

\* d1 quotes the stored d2, d3 quotes a tweet that is not stored
DecorItems ==
    {[archiveItem("d1", "quote", NULL) EXCEPT !.full_text = "Post d1", !.created_at = 1,
                                             !.quoted_tweet_id = "d2"],
     [archiveItem("d2", "text_only", NULL) EXCEPT !.full_text = "Post d2", !.created_at = 2],
     [archiveItem("d3", "quote", NULL) EXCEPT !.full_text = "Post d3", !.created_at = 3,
                                             !.quoted_tweet_id = ExternalId]}

InitDecor ==
    /\ tweets = [id \in DecorIds |-> importedRow(CHOOSE item \in DecorItems : item.id = id)]
    /\ tags = {[id |-> 1, name |-> "a", category |-> "topic", color |-> "#8B4513"],
               [id |-> 2, name |-> "b", category |-> "custom", color |-> NULL]}
    /\ tweet_tags = {}
    /\ tagSeq = 2
    /\ swipe_sessions = {}
    /\ today = 1
    /\ req = NoRequest
    /\ res = NoResponse

\* tag names a user sends: plain ones, and ones holding the characters ':' and ','
DecorTagNames == {"a", "B", "to:do", "x,y"}

DecorQueries ==
    {[DefaultQuery EXCEPT !.tag = tg, !.limit = ToString(l)] :
        tg \in {"", "a", "a,b", "a,a", "a, b"}, l \in 1..MaxLimit}

NextDecor ==
    \/ Idle /\ \E name \in DecorTagNames : AddTag("d1", name, "custom")
    \/ Idle /\ \E name \in {"a", "b"} : AddTag("d3", name, "custom")
    \/ Idle /\ \E name \in {"a", "x,y"} : RemoveTag("d1", name)
    \/ Idle /\ \E q \in DecorQueries : GetTweets(q)
    \/ Respond

SpecDecor == InitDecor /\ [][NextDecor]_vars

\* the tag as a row of the listing shows it; a tag without a color shows '#666'
shownTag(tg) ==
    [category |-> tg.category, name |-> tg.name,
     color |-> IF tg.color = NULL THEN "#666" ELSE tg.color]

\* C19: every listed row carries each tag associated with the entry once, with the
\* tag's category, name and color, whatever the tag filter and the tag's name; and
\* quoted_text / quoted_media / quoted_id are the quoted entry's fields when it is stored
\* and null when it is not.
C19_RowsDecorated ==
    Listed =>
        \A k \in 1..Len(res.tweets) :
            LET row == res.tweets[k]
                t == tweets[row.id]
                stored == t.quoted_tweet_id # NULL /\ t.quoted_tweet_id \in DOMAIN tweets
            IN  /\ row.tags = SetToBag({shownTag(tg) : tg \in tagRows(row.id)})
                /\ stored => /\ row.quoted_id = t.quoted_tweet_id
                              /\ row.quoted_text = tweets[t.quoted_tweet_id].full_text
                              /\ row.quoted_media = tweets[t.quoted_tweet_id].media_url
                /\ ~stored => /\ row.quoted_id = NULL
                               /\ row.quoted_text = NULL
                               /\ row.quoted_media = NULL

\* the plural rules: <<ending, length the word must exceed, what replaces the ending>>
PluralRules ==
    <<<<"ies", 4, "y">>, <<"ied", 4, "y">>, <<"es", 4, "">>, <<"s", 3, "">>>>

\* the rules of the single chain: <<ending, length the word must exceed>>; the first
\* two are the verbal endings
ChainRules ==
    <<<<"ing", 5>>, <<"ed", 4>>, <<"ness", 6>>, <<"ment", 6>>, <<"ly", 4>>, <<"ful", 5>>,
      <<"less", 6>>, <<"tion", 6>>, <<"er", 4>>, <<"est", 5>>, <<"able", 6>>, <<"ible", 6>>>>

\* the rule fits the word
ruleFits(rule, w) ==
    /\ endsWith(w, rule[1])
    /\ Len(w) > rule[2]
    /\ rule[1] = "s" => ~endsWith(w, "ss")

\* the index of the first rule that fits, 0 when none does
firstFit(rules, w) ==
    IF \E k \in 1..Len(rules) : ruleFits(rules[k], w)
    THEN CHOOSE k \in 1..Len(rules) :
            ruleFits(rules[k], w) /\ \A j \in 1..(k - 1) : ~ruleFits(rules[j], w)
    ELSE 0

\* the word after at most one plural rule
afterPlural(w) ==
    IF firstFit(PluralRules, w) = 0 THEN w
    ELSE sliceEnd(w, Len(PluralRules[firstFit(PluralRules, w)][1]))
            \o PluralRules[firstFit(PluralRules, w)][3]

\* the word after at most one rule of the chain; a doubled last letter is undone after
\* the verbal endings only
afterChain(w) ==
    LET k == firstFit(ChainRules, w)
        cut == IF k = 0 THEN w ELSE sliceEnd(w, Len(ChainRules[k][1]))
    IN  IF k \in {1, 2} /\ Len(cut) > 2 /\ At(cut, Len(cut)) = At(cut, Len(cut) - 1)
        THEN sliceEnd(cut, 1) ELSE cut

\* C21: for a word of 3 or more characters that is no irregular form, stem applies at
\* most one plural rule and then at most one rule of the single chain (first that fits,
\* each guarded by its minimum length); the doubled-consonant undo follows -ing / -ed
\* only, and the result has at least 2 characters.
C21_OnePluralOneChainRule ==
    (/\ Stemmed
     /\ Len(req.word) >= 3
     /\ toLowerCase(req.word) \notin DOMAIN irregulars
     /\ toLowerCase(req.word) \notin DOMAIN ObjectPrototype) =>
        /\ res.returned = JsString(afterChain(afterPlural(toLowerCase(req.word))))
        /\ res.returned.length >= 2

\* stem('happinessing') has returned 'happiness': -ing is stripped, -ness is not;
\* stem('glassly') has kept the doubled s
C21_Witness ==
    /\ Stemmed
    /\ \/ req.word = "happinessing" /\ res.returned = JsString("happiness")
       \/ req.word = "hopping" /\ res.returned = JsString("hop")
    /\ stem("glassly") = JsString("glass")
    /\ stem("catses") = JsString("cats")

\* the string without leading and trailing white space
RECURSIVE trim(_)
trim(t) ==
    IF Len(t) > 0 /\ IsSpace(At(t, 1)) THEN trim(SubSeq(t, 2, Len(t)))
    ELSE IF Len(t) > 0 /\ IsSpace(At(t, Len(t))) THEN trim(SubSeq(t, 1, Len(t) - 1))
    ELSE t

\* the sequence without the later repetitions of its elements
RECURSIVE withoutRepetition(_)
withoutRepetition(sq) ==
    IF Len(sq) = 0 THEN << >>
    ELSE LET front == withoutRepetition(SubSeq(sq, 1, Len(sq) - 1))
         IN  IF includes(front, sq[Len(sq)]) THEN front ELSE Append(front, sq[Len(sq)])

\* the tag parameter naming the same set of tags once each, without spaces around them
plainTagList(tag) ==
    join(withoutRepetition([k \in 1..Len(tagNames(tag)) |-> trim(tagNames(tag)[k])]), ",")

\* C22: a tag parameter that repeats a name or puts spaces around a name is answered
\* as the list without repetition and spaces is: same entries, same total.
C22_TagListIsASet ==
    (Listing /\ req.query.tag # "") =>
        res \in getTweets([req.query EXCEPT !.tag = plainTagList(req.query.tag)])

\* C23: against an unchanged store and for fixed filters, sort and limit, no entry of
\* page 1 comes again on page 2, also when entries share the value of the sort column
\* (so that the pages 1..totalPages hold every matching entry exactly once).
C23_PagesPartitionMatches ==
    (Listed /\ req.query.page = "1") =>
        \A next \in getTweets([req.query EXCEPT !.page = "2"]) :
            next.status = 200 => idsOf(next.tweets) \cap returned = {}

(***************************************************************************)
(* SpecSwipe: three stored tweets curated through PATCH /api/tweets/:id,   *)
(* the swipe queue read in between, and the archive imported again.        *)
(***************************************************************************)
MaxSwipes == 2

SwipeIds == {"s1", "s2", "s3"}

SwipeItems ==
    {queueItem("s1", "text_only", 5, 1),
     queueItem("s2", "media", 3, 2),
     queueItem("s3", "reply", 1, 3)}

InitSwipe ==
    /\ tweets = [id \in SwipeIds |-> importedRow(CHOOSE item \in SwipeItems : item.id = id)]
    /\ tags = {}
    /\ tweet_tags = {}
    /\ tagSeq = 0
    /\ swipe_sessions = {}
    /\ today = 1
    /\ req = NoRequest
    /\ res = NoResponse

NoBody ==
    [quality_rating |-> Undefined, swipe_status |-> Undefined,
     notes |-> Undefined, is_reviewed |-> Undefined]

\* the body the swipe client sends for an undo: { swipe_status: null, is_reviewed: 0 }
UndoBody == [NoBody EXCEPT !.swipe_status = NULL, !.is_reviewed = "false"]

\* bodies for s1: every combination of a swipe status (absent, null, valid or not), a
\* quality rating (absent or not one the table allows) and is_reviewed, and three more
PatchBodies ==
    {[NoBody EXCEPT !.swipe_status = sw, !.quality_rating = qr, !.is_reviewed = rv] :
        sw \in {Undefined, NULL, "like", "dislike", "review_later", "meh"},
        qr \in {Undefined, "bogus"},
        rv \in {Undefined, "true", "false"}}
    \cup {[NoBody EXCEPT !.swipe_status = "superlike"],
          [NoBody EXCEPT !.quality_rating = "high"],
          [NoBody EXCEPT !.notes = "keep"]}

\* the counters of today's session stay within MaxSwipes
swipesBelowBound(body) ==
    \/ sessionColumn(body.swipe_status) = NULL
    \/ \A row \in swipe_sessions : row.session_date = today => row.tweets_swiped < MaxSwipes

ExportQueries ==
    {ExportDefault,
     [ExportDefault EXCEPT !.swipe = "like"],
     [ExportDefault EXCEPT !.quality = "medium", !.excludeReplies = "false"],
     [ExportDefault EXCEPT !.type = "reply", !.excludeReplies = "false"],
     [ExportDefault EXCEPT !.length = "short", !.tag = "a"]}

NextSwipe ==
    \/ Idle /\ \E q \in ExportQueries : ExportJson(q)
    \/ Idle /\ \E q \in ExportQueries : ExportCsv(q)
    \/ Idle /\ \E body \in PatchBodies : swipesBelowBound(body) /\ Patch("s1", body)
    \/ Idle /\ \E body \in {[NoBody EXCEPT !.swipe_status = "like"], UndoBody} :
                  swipesBelowBound(body) /\ Patch("s2", body)
    \/ Idle /\ Patch("s9", [NoBody EXCEPT !.notes = "keep"])
    \/ Idle /\ \E q \in {QueueDefault, [QueueDefault EXCEPT !.limit = "1"]} : SwipeQueue(q)
    \/ Idle /\ InsertTweet(queueItem("s1", "text_only", 5, 1))
    \/ Respond

SpecSwipe == InitSwipe /\ [][NextSwipe]_vars

Patched == req.op = "PATCH /api/tweets/:id"

\* C24: a PATCH /api/tweets/:id request that ends in an error response leaves the
\* store unchanged: the tweets and the swipe_sessions rows and counters are as before
\* the request.
C24_ErrorLeavesStore ==
    [][(Patched' /\ res'.status >= 400) => UNCHANGED store]_vars

\* C25: every tweet whose swipe_status is not null has is_reviewed = 1, and in every
\* swipe_sessions row tweets_swiped = likes + superlikes + dislikes + review_later.
C25_SwipedIsReviewed ==
    /\ \A id \in DOMAIN tweets :
          tweets[id].swipe_status # NULL => tweets[id].is_reviewed = 1
    /\ \A row \in swipe_sessions :
          row.tweets_swiped = row.likes + row.superlikes + row.dislikes + row.review_later

\* a queue response lists tweets without a swipe status, and `remaining` counts the
\* tweets the queue selects
queueShowsUnswiped ==
    Queued =>
        /\ \A k \in 1..Len(res.tweets) : tweets[res.tweets[k].id].swipe_status = NULL
        /\ res.remaining = queueCount(req.query)

\* a successful PATCH gives a queued tweet one of the four swipe statuses
swipes(id) ==
    /\ Patched' /\ res'.status = 200 /\ req'.id = id
    /\ req'.body.swipe_status \in SwipeStatuses
    /\ id \in queueSelected(QueueDefault)

\* a successful PATCH with swipe_status null on a tweet that was swiped out of the queue
undoes(id) ==
    /\ Patched' /\ res'.status = 200 /\ req'.id = id
    /\ req'.body.swipe_status = NULL
    /\ tweets[id].swipe_status \in SwipeStatuses
    /\ queueBase([tweets[id] EXCEPT !.swipe_status = NULL])

swipeLeavesQueue ==
    \A id \in DOMAIN tweets :
        swipes(id) =>
            /\ id \notin queueSelected(QueueDefault)'
            /\ queueCount(QueueDefault)' = queueCount(QueueDefault) - 1

undoReturnsToQueue ==
    \A id \in DOMAIN tweets :
        undoes(id) =>
            /\ id \in queueSelected(QueueDefault)'
            /\ queueCount(QueueDefault)' = queueCount(QueueDefault) + 1
            /\ swipe_sessions \subseteq swipe_sessions'

\* C26: a successful PATCH that sets the swipe_status of a queued tweet to dislike,
\* like, superlike or review_later takes it out of the queue and lowers `remaining`
\* by one; queue responses list no swiped tweet; a later PATCH with swipe_status null
\* puts it back and raises `remaining` by one, and no session counter goes down.
C26_SwipeAndUndo ==
    /\ []queueShowsUnswiped
    /\ [][swipeLeavesQueue /\ undoReturnsToQueue]_vars

\* s1 was liked and the undo has been answered: s1 is in the queue again, today's
\* session still counts the like
C26_Witness ==
    /\ Patched /\ req.id = "s1" /\ req.body = UndoBody /\ res.status = 200
    /\ tweets["s1"].swipe_status = NULL
    /\ tweets["s1"].quality_rating = "medium"
    /\ "s1" \in queueSelected(QueueDefault)
    /\ swipe_sessions = {[NewSession(today) EXCEPT !.likes = 1, !.tweets_swiped = 1]}

\* the curation fields of a row
curation(t) ==
    <<t.swipe_status, t.quality_rating, t.notes, t.is_reviewed, t.reviewed_at>>

\* C27: importing a tweet that is already stored leaves its swipe_status,
\* quality_rating, notes, is_reviewed and reviewed_at as they were.
C27_ReimportKeepsCuration ==
    [][\A item \in SwipeItems :
          (item.id \in DOMAIN tweets /\ InsertTweet(item)) =>
              curation(tweets'[item.id]) = curation(tweets[item.id])]_vars

\* C28: for the same filter parameters and the same store, the JSON export and the CSV
\* export both succeed and export the same entries in the same order.
C28_ExportsAgree ==
    req.op = "GET /api/export/json" =>
        /\ res.status = 200
        /\ \E csv \in exportCsv(req.query) : Tail(csv.lines) = res.lines

\* a thread tweet whose in_reply_to_tweet_id is not null and names no stored tweet
unresolvedReply(id) ==
    /\ isThread(id)
    /\ tweets[id].in_reply_to_tweet_id # NULL
    /\ tweets[id].in_reply_to_tweet_id \notin DOMAIN tweets

\* C29: with the other parameters equal, the tweets listed with excludeThreads=true are
\* among those listed with excludeThreads=false, and the ones missing are exactly the
\* thread tweets whose in_reply_to_tweet_id is not null and names no stored tweet: each
\* of them that passes the other filters is listed without the toggle and not with it.
C29_ToggleHidesUnresolvedReplies ==
    Listed =>
        LET shown == wholeListing([req.query EXCEPT !.excludeThreads = "false"])
            kept == wholeListing([req.query EXCEPT !.excludeThreads = "true"])
        IN  /\ kept \subseteq shown
            /\ shown \ kept = {id \in shown : unresolvedReply(id)}
            /\ \A id \in DOMAIN tweets :
                  (unresolvedReply(id) /\ passesExcept(id, req.query, ExcludeThreadsCond)) =>
                      id \in shown \ kept

\* t1 answers a tweet that is not stored, t3 starts a thread; the toggle is on and t3
\* alone is listed, where the same request without the toggle lists t1 as well
C29_Witness ==
    /\ Listed
    /\ req.query.excludeThreads = "true"
    /\ req.query.search = "" /\ req.query.type = ""
    /\ DOMAIN tweets = {"t1", "t3"}
    /\ unresolvedReply("t1")
    /\ isThread("t3") /\ tweets["t3"].in_reply_to_tweet_id = NULL
    /\ req.query.limit = "2" /\ req.query.page = "1"
    /\ returned = {"t3"}
    /\ wholeListing([req.query EXCEPT !.excludeThreads = "false"]) = {"t1", "t3"}

\* the search has no quoted phrase and each of its words is a stop word or shorter than
\* 2 characters
stopOnly(search) ==
    /\ search # ""
    /\ Len(quotedRegexExec(search, 1)) = 0
    /\ \A k \in 1..Len(splitWords(search, 1, "")) :
          LET w == splitWords(search, 1, "")[k]
          IN  Len(w) < 2 \/ includes(stopWords, toLowerCase(w))

\* C30: a search without a quoted phrase whose words are all stop words or shorter than
\* 2 characters adds no text condition: the request is answered as the same request
\* with an empty search, entries and total alike, whatever the other filters are.
C30_StopWordsAddNoCondition ==
    (Listing /\ stopOnly(req.query.search)) =>
        /\ filterConditions(req.query) = filterConditions([req.query EXCEPT !.search = ""])
        /\ res \in getTweets([req.query EXCEPT !.search = ""])

\* the search 'The  of' with the other parameters at their defaults lists the four
\* tweets an empty search lists
C30_Witness ==
    /\ Listed
    /\ req.query = [DefaultQuery EXCEPT !.search = "The  of"]
    /\ tweets["k4"].in_reply_to_tweet_id = "k3"
    /\ returned = {"k1", "k3", "k6", "k7"}
    /\ res.pagination.total = 4

====
